---------------------------- MODULE Spec2Model ----------------------------
(***************************************************************************)
(* fog_pack: the authenticated object pipeline.                            *)
(*                                                                         *)
(* Entry (src/src/entry.rs) and the schema-less encoder/decoder NoSchema   *)
(* (src/src/no_schema.rs), with the collaborators they call (the value     *)
(* codec, HashState, Signature, Vault, Document, zstd) modelled from the   *)
(* specification.                                                          *)
(*                                                                         *)
(* A byte string is a sequence of units.  A unit is a plain byte [b |-> n] *)
(* or an opaque run of bytes whose content matters only up to equality:    *)
(* the digest of a hash [hv |-> h], the signature bytes of a signature     *)
(* [sg |-> s], the header of a zstd frame [z |-> f].                       *)
(***************************************************************************)
EXTENDS Integers, Sequences, FiniteSets, TLC

VARIABLES
    x,      \* the object built by new: an Entry, a Document or NoObj
    y,      \* the object returned by the last successful decode, or NoObj
    buf,    \* the buffer the encoders write and the decoders read
    sent,   \* how buf was made: the object encoded, and how; or NoSent
    prov,   \* how y was made: the decoder called and its arguments; or NoProv
    last,   \* the last call made and what it returned
    lk,         \* the Lock made by from_stream or from_identity, or NoLock
    wire,       \* the bytes Lock::write produced, as they reach Lock::read
    lkd,        \* the Lock that Lock::read returned, or NoLock
    ciphertext, \* the output vector of encrypt
    plaintext,  \* the output vector of decrypt
    lres,       \* the last Lock call made and what it returned
    schema,     \* the validator of a schema (self of query_check)
    query,      \* the validator of a query (other of query_check)
    allowed,    \* what query_check returned for them, if it was called
    input,      \* the parser given to the schema validator's validate
    outcome     \* what validate returned for it, if it was called

EntryVars == <<x, y, buf, sent, prov, last>>
LockVars == <<lk, wire, lkd, ciphertext, plaintext, lres>>
ValidatorVars == <<schema, query, allowed, input, outcome>>
vars == <<EntryVars, LockVars, ValidatorVars>>

\* ------------------------------------------------------------------ bounds

\* Size limit of an entry's raw bytes, in units (scaled down).
MAX_ENTRY_SIZE == 7
\* Size limit of a document's raw bytes, in units (scaled down).
MAX_DOC_SIZE == 11
\* Number of signatures appended to x and y together.
MaxSigns == 3

\* ------------------------------------------------------------- Option<T>

None == <<>>
Some(v) == <<v>>
is_none(o) == o = <<>>
is_some(o) == o # <<>>
unwrap(o) == o[1]

NoObj == [kind |-> "none"]
NoSent == [how |-> "none"]
NoProv == [mode |-> "none"]

\* ------------------------------------------------------------- value codec

B(n) == [b |-> n]
IsB(u) == DOMAIN u = {"b"}

\* MessagePack markers used by the canonical encoding.
FixMap == 128
FixStr == 160
MsgNil == 192
MsgFalse == 194
MsgTrue == 195
Bin8 == 196
Ext8 == 199
\* Extension type of a Hash value.
ExtHash == 2

\* Hash::new_empty(): version 0, no digest.
EmptyHash == [ver |-> 0, dig |-> <<>>]

\* Values: Nil, Bool, Bin, Str, Hash and Map (a sequence of <<key, value>>
\* pairs with string keys in ascending order; keys are sequences of chars).
VNil == [nil |-> TRUE]
VBool(v) == [bool |-> v]
VBin(d) == [bin |-> d]
VStr(s) == [str |-> s]
VHash(h) == [hash |-> h]
VMap(kv) == [map |-> kv]

Zeros(n) == [i \in 1..n |-> 0]
Bytes(s) == [i \in 1..Len(s) |-> B(s[i])]

\* encode::write_value for the scalar values.
write_scalar(v) ==
    CASE DOMAIN v = {"nil"} -> <<B(MsgNil)>>
      [] DOMAIN v = {"bool"} -> <<B(IF v.bool THEN MsgTrue ELSE MsgFalse)>>
      [] DOMAIN v = {"bin"} -> <<B(Bin8), B(Len(v.bin))>> \o Bytes(v.bin)
      [] DOMAIN v = {"str"} -> <<B(FixStr + Len(v.str))>> \o Bytes(v.str)
      [] DOMAIN v = {"hash"} -> <<B(Ext8), B(ExtHash), [hv |-> v.hash]>>

RECURSIVE write_pairs(_)
write_pairs(kv) ==
    IF kv = <<>> THEN <<>>
    ELSE write_scalar(VStr(kv[1][1])) \o write_scalar(kv[1][2])
         \o write_pairs(Tail(kv))

\* encode::write_value.
write_value(v) ==
    IF DOMAIN v = {"map"}
    THEN <<B(FixMap + Len(v.map))>> \o write_pairs(v.map)
    ELSE write_scalar(v)


\* The units from position i on (1-based), <<>> when i is past the end.
From(s, i) == IF i > Len(s) THEN <<>> ELSE SubSeq(s, i, Len(s))
Upto(s, n) == SubSeq(s, 1, n)
AllB(s) == \A i \in 1..Len(s) : IsB(s[i])
Vals(s) == [i \in 1..Len(s) |-> s[i].b]

RECURSIVE LexLess(_, _)
LexLess(a, c) ==
    IF c = <<>> THEN FALSE
    ELSE IF a = <<>> THEN TRUE
    ELSE IF a[1] # c[1] THEN a[1] < c[1]
    ELSE LexLess(Tail(a), Tail(c))

Err == -1

\* The key at the head of s when s starts with a string: [ok, key, len].
read_str(s) ==
    IF s = <<>> \/ ~IsB(s[1]) THEN [ok |-> FALSE]
    ELSE IF s[1].b < FixStr \/ s[1].b > FixStr + 31 THEN [ok |-> FALSE]
    ELSE IF Len(s) < 1 + s[1].b - FixStr THEN [ok |-> FALSE]
    ELSE IF ~AllB(SubSeq(s, 2, 1 + s[1].b - FixStr)) THEN [ok |-> FALSE]
    ELSE [ok |-> TRUE, key |-> Vals(SubSeq(s, 2, 1 + s[1].b - FixStr)),
          len |-> 1 + s[1].b - FixStr]

\* n more units when the rest r was read, Err when it was not.
plus(n, r) == IF r = Err THEN Err ELSE n + r

\* decode::verify_value: the number of units taken by exactly one value at
\* the head of s, or Err (truncated, unknown marker, keys out of order).
RECURSIVE verify_value(_)
RECURSIVE verify_pairs(_, _, _)

\* One map entry whose key k was read and whose value takes v units.
verify_pair_value(s, n, k, v) ==
    IF v = Err THEN Err
    ELSE plus(k.len + v, verify_pairs(From(s, k.len + v + 1), n - 1, Some(k.key)))

\* One map entry whose key was read as k: keys ascend strictly.
verify_pair_key(s, n, prev, k) ==
    IF ~k.ok THEN Err
    ELSE IF is_some(prev) /\ ~LexLess(unwrap(prev), k.key) THEN Err
    ELSE verify_pair_value(s, n, k, verify_value(From(s, k.len + 1)))

\* The n map entries at the head of s, the previous key being prev.
verify_pairs(s, n, prev) ==
    IF n = 0 THEN 0 ELSE verify_pair_key(s, n, prev, read_str(s))

verify_value(s) ==
    IF s = <<>> \/ ~IsB(s[1]) THEN Err
    ELSE IF s[1].b \in {MsgNil, MsgFalse, MsgTrue} THEN 1
    ELSE IF s[1].b = Bin8
    THEN IF Len(s) < 2 \/ ~IsB(s[2]) THEN Err
         ELSE IF Len(s) < 2 + s[2].b \/ ~AllB(SubSeq(s, 3, 2 + s[2].b)) THEN Err
         ELSE 2 + s[2].b
    ELSE IF s[1].b >= FixStr /\ s[1].b <= FixStr + 31
    THEN IF read_str(s).ok THEN read_str(s).len ELSE Err
    ELSE IF s[1].b = Ext8
    THEN IF Len(s) >= 3 /\ s[2] = B(ExtHash) /\ DOMAIN s[3] = {"hv"} THEN 3 ELSE Err
    ELSE IF s[1].b >= FixMap /\ s[1].b <= FixMap + 15
    THEN plus(1, verify_pairs(Tail(s), s[1].b - FixMap, None))
    ELSE Err

\* document::parse_schema_hash: [ok, hash, len].  hash is Some(h) when the
\* body is a map whose first key is the empty string, mapped to a Hash, and
\* len is then the number of units up to and including that hash.
parse_schema_hash(s) ==
    IF s = <<>> \/ ~IsB(s[1]) \/ s[1].b < FixMap \/ s[1].b > FixMap + 15
    THEN [ok |-> FALSE]
    ELSE IF s[1].b = FixMap \/ Len(s) < 2 \/ s[2] # B(FixStr)
    THEN [ok |-> TRUE, hash |-> None, len |-> 0]
    ELSE IF Len(s) >= 5 /\ s[3] = B(Ext8) /\ s[4] = B(ExtHash) /\ DOMAIN s[5] = {"hv"}
    THEN [ok |-> TRUE, hash |-> Some(s[5].hv), len |-> 5]
    ELSE [ok |-> FALSE]

\* ------------------------------------------------------------ crypto

\* crypto::HashState: an incremental hash.  The state is everything fed so
\* far and the digest is the state itself: a collision-free hash.
HashState_new == <<>>
update(hs, bytes) == hs \o bytes
get_hash(hs) == [ver |-> 1, dig |-> hs]

\* Hash::new(1, data).
Hash_new(data) == get_hash(update(HashState_new, data))

\* Keys of the vault (1, 2) and a key the vault does not hold (0).  The
\* Identity of key k is the public-key byte 10 + k.
ValidKeys == {1, 2}
BadKeyId == 0
Keys == ValidKeys \cup {BadKeyId}
Identity(k) == 10 + k

\* Signature version byte.
SigVersion == 1
\* Units of an encoded signature: version, public key, signature bytes.
SigLen == 3

\* Vault::sign(hash, key): [ok, sig].
Vault_sign(hash, k) ==
    IF k \in ValidKeys
    THEN [ok |-> TRUE, sig |-> [signed_by |-> Identity(k), over |-> hash]]
    ELSE [ok |-> FALSE]

\* Signature::encode.
Signature_encode(sig) ==
    <<B(SigVersion), B(sig.signed_by), [sg |-> [by |-> sig.signed_by, over |-> sig.over]]>>

\* Signature::decode at the head of s: [ok, signed_by, raw, len].  It fails
\* on a short tail, an unknown version and a malformed public key.
Signature_decode(s) ==
    IF Len(s) < SigLen THEN [ok |-> FALSE]
    ELSE IF s[1] # B(SigVersion) THEN [ok |-> FALSE]
    ELSE IF ~IsB(s[2]) THEN [ok |-> FALSE]
    ELSE [ok |-> TRUE, signed_by |-> s[2].b, raw |-> s[3], len |-> SigLen]

\* Signature::verify(hash).
Signature_verify(sig, hash) == sig.raw = [sg |-> [by |-> sig.signed_by, over |-> hash]]

\* ------------------------------------------------------------ hashing

\* The hashes of raw bytes, body_state being the hash state after the bytes
\* that come before the body and the body itself, and tail the signatures:
\* the pre-signature hash, and the hash state and hash carried through the
\* signatures when there are any.
hashed(body_state, tail) ==
    [pre |-> get_hash(body_state),
     hash_state |-> IF Len(tail) > 0 THEN update(body_state, tail) ELSE body_state,
     hash |-> IF Len(tail) > 0 THEN get_hash(update(body_state, tail))
              ELSE get_hash(body_state)]

\* ------------------------------------------------------------ Entry

\* Entry::from_parts.
Entry_from_parts(hash_state, entry_hash, hash, doc, field, entry_len, entry, signed_by, compressed) ==
    [kind |-> "entry", hash_state |-> hash_state, entry_hash |-> entry_hash,
     hash |-> hash, doc |-> doc, field |-> field, entry_len |-> entry_len,
     entry |-> entry, signed_by |-> signed_by, compressed |-> compressed]

\* The hash state were the field left out of it.
entry_body_state_no_field(doc, field, body) ==
    update(update(HashState_new, write_value(VHash(doc))), body)

\* The hash state after feeding encode(doc hash), encode(field) and the body.
entry_body_state(doc, field, body) ==
    update(update(update(HashState_new, write_value(VHash(doc))),
                  write_value(VStr(field))), body)

\* Entry::populate_hash_state, the assignments at its end.
set_hashes(e, h) ==
    [e EXCEPT !.hash_state = Some(h.hash_state), !.entry_hash = Some(h.pre),
              !.hash = h.hash]

\* Entry::populate_hash_state.
populate_hash_state(e) ==
    set_hashes(e, hashed(entry_body_state(e.doc, e.field, Upto(e.entry, e.entry_len)),
                         From(e.entry, e.entry_len + 1)))

\* Entry::new were it to refuse an encoded value of exactly MAX_ENTRY_SIZE.
new_encoded_below_max(doc, field, entry) ==
    IF Len(entry) >= MAX_ENTRY_SIZE THEN [ok |-> FALSE]
    ELSE [ok |-> TRUE,
          entry |-> populate_hash_state(
              Entry_from_parts(None, None, EmptyHash, doc, field, Len(entry),
                               entry, <<>>, None))]

\* Entry::new, the encoded value being entry: [ok, entry].
new_encoded(doc, field, entry) ==
    IF Len(entry) > MAX_ENTRY_SIZE THEN [ok |-> FALSE]
    ELSE [ok |-> TRUE,
          entry |-> populate_hash_state(
              Entry_from_parts(None, None, EmptyHash, doc, field, Len(entry),
                               entry, <<>>, None))]

\* Entry::new: [ok, entry].
Entry_new(doc, field, v) == new_encoded(doc, field, write_value(v))

\* Entry::sign, from the check of the new length on: e1 is the entry before
\* and e2 the entry after the signature and its signer were pushed.
sign_appended(e1, e2) ==
    IF Len(e2.entry) > MAX_ENTRY_SIZE THEN [ok |-> FALSE, err |-> "Io", entry |-> e2]
    ELSE IF Len(e2.entry) > Len(e1.entry)
    THEN [ok |-> TRUE, err |-> "",
          entry |-> [e2 EXCEPT
              !.hash_state = Some(update(unwrap(@), From(e2.entry, Len(e1.entry) + 1))),
              !.hash = get_hash(update(unwrap(e2.hash_state),
                                       From(e2.entry, Len(e1.entry) + 1))),
              !.compressed = None]]
    ELSE [ok |-> TRUE, err |-> "", entry |-> [e2 EXCEPT !.compressed = None]]

\* Entry::sign were it to keep a signer out of signed_by who is in it already.
sign_with_dedup(e1, s) ==
    IF ~s.ok THEN [ok |-> FALSE, err |-> "BadKey", entry |-> e1]
    ELSE sign_appended(e1, [e1 EXCEPT
             !.signed_by = IF \E i \in 1..Len(@) : @[i] = s.sig.signed_by
                           THEN @ ELSE Append(@, s.sig.signed_by),
             !.entry = @ \o Signature_encode(s.sig)])

\* Entry::sign, from the result s of Vault::sign on.
sign_with(e1, s) ==
    IF ~s.ok THEN [ok |-> FALSE, err |-> "BadKey", entry |-> e1]
    ELSE sign_appended(e1, [e1 EXCEPT !.signed_by = Append(@, s.sig.signed_by),
                                      !.entry = @ \o Signature_encode(s.sig)])

\* Entry::sign, the hash state being there.
sign_hashed(e1, key) == sign_with(e1, Vault_sign(unwrap(e1.entry_hash), key))

\* Entry::sign were it to rebuild a missing hash state from the body alone.
Entry_sign_body_only(e, key) ==
    sign_hashed(IF is_none(e.hash_state) \/ is_none(e.entry_hash)
                THEN set_hashes(e, hashed(entry_body_state(e.doc, e.field,
                                                           Upto(e.entry, e.entry_len)), <<>>))
                ELSE e, key)

\* Entry::sign: [ok, err, entry], entry being the Entry as the call leaves it.
Entry_sign(e, key) ==
    sign_hashed(IF is_none(e.hash_state) \/ is_none(e.entry_hash)
                THEN populate_hash_state(e) ELSE e, key)

\* Entry::len, Entry::hash, Entry::raw_entry, PartialEq for Entry.
Entry_len(e) == Len(e.entry)
Entry_hash(e) == e.hash
raw_entry(e) == e.entry
Entry_eq(a, c) == Entry_hash(a) = Entry_hash(c)

\* ------------------------------------------------------------ Document

\* Document::from_parts.
Document_from_parts(hash_state, doc_hash, hash, doc_len, doc, compressed, signed_by, compression) ==
    [kind |-> "doc", hash_state |-> hash_state, doc_hash |-> doc_hash,
     hash |-> hash, doc_len |-> doc_len, doc |-> doc, compressed |-> compressed,
     signed_by |-> signed_by, compression |-> compression]

\* The hashes of a document's raw bytes whose body is doc_len long.
doc_hashes(doc, doc_len) ==
    hashed(update(HashState_new, Upto(doc, doc_len)), From(doc, doc_len + 1))

\* A document with all its hashes, made of raw bytes and their hashes h.
hashed_doc(h, doc_len, doc, compressed, signed_by) ==
    Document_from_parts(Some(h.hash_state), Some(h.pre), h.hash, doc_len, doc,
                        compressed, signed_by, None)

\* Document::new, the encoded value being doc: [ok, doc].
doc_encoded(v, doc) ==
    IF DOMAIN v # {"map"} THEN [ok |-> FALSE]
    ELSE IF ~parse_schema_hash(doc).ok THEN [ok |-> FALSE]
    ELSE IF Len(doc) > MAX_DOC_SIZE THEN [ok |-> FALSE]
    ELSE [ok |-> TRUE,
          doc |-> hashed_doc(doc_hashes(doc, Len(doc)), Len(doc), doc, None, <<>>)]

\* Document::new: [ok, doc].  The value must be a map, the empty-string key
\* (if present) must hold a Hash, and the encoding must fit MAX_DOC_SIZE.
Document_new(v) == doc_encoded(v, write_value(v))

\* Document::sign, from the result s of Vault::sign on: nothing is appended
\* when the signature does not fit.
doc_sign_with(d1, s) ==
    IF ~s.ok THEN [ok |-> FALSE, err |-> "BadKey", doc |-> d1]
    ELSE IF Len(d1.doc) + SigLen > MAX_DOC_SIZE
    THEN [ok |-> FALSE, err |-> "Io", doc |-> d1]
    ELSE [ok |-> TRUE, err |-> "",
          doc |-> [d1 EXCEPT
              !.signed_by = Append(@, s.sig.signed_by),
              !.doc = @ \o Signature_encode(s.sig),
              !.hash_state = Some(update(unwrap(@), Signature_encode(s.sig))),
              !.hash = get_hash(update(unwrap(d1.hash_state), Signature_encode(s.sig))),
              !.compressed = None]]

\* Document::sign, the hash state being there.
doc_sign_hashed(d1, key) == doc_sign_with(d1, Vault_sign(unwrap(d1.doc_hash), key))

\* The document with its hashes set to h.
doc_set_hashes(d, h) ==
    [d EXCEPT !.hash_state = Some(h.hash_state), !.doc_hash = Some(h.pre),
              !.hash = h.hash]

\* Document::sign: [ok, err, doc].
Document_sign(d, key) ==
    doc_sign_hashed(IF is_none(d.hash_state) \/ is_none(d.doc_hash)
                    THEN doc_set_hashes(d, doc_hashes(d.doc, d.doc_len)) ELSE d, key)

\* Document::len, Document::raw_doc, Document::hash, Document::schema_hash.
Document_len(d) == Len(d.doc)
raw_doc(d) == d.doc
Document_hash(d) == d.hash
schema_hash(d) == parse_schema_hash(d.doc).hash

\* ------------------------------------------------------------ zstd

RECURSIVE Reverse(_)
Reverse(s) == IF s = <<>> THEN <<>> ELSE Append(Reverse(Tail(s)), Head(s))

\* What get_frame_content_size answers when the header cannot be read.
CONTENTSIZE_ERROR == 1000000

\* zstd_safe::compress_cctx: a frame header that advertises the content size
\* followed by the transformed content.  Level 0 is the default level, 3.
zstd_compress(raw, level) ==
    <<[z |-> [size |-> Len(raw), level |-> IF level = 0 THEN 3 ELSE level]]>>
    \o Reverse(raw)

\* zstd_safe::get_frame_content_size.
get_frame_content_size(s) ==
    IF s # <<>> /\ DOMAIN s[1] = {"z"} THEN s[1].z.size ELSE CONTENTSIZE_ERROR

\* zstd_safe::decompress_dctx into a destination of dst_len units: [ok, out].
\* It fails on a bad header, on content that does not match the advertised
\* size and on a destination that is too small.
zstd_decompress(dst_len, s) ==
    IF s = <<>> \/ DOMAIN s[1] # {"z"} THEN [ok |-> FALSE]
    ELSE IF s[1].z.size # Len(s) - 1 \/ s[1].z.size > dst_len THEN [ok |-> FALSE]
    ELSE [ok |-> TRUE, out |-> Reverse(Tail(s))]

\* ------------------------------------------------------------ CompressType

Uncompressed == 0
CompressedNoSchema == 1
Compressed == 2
DictCompressed == 3

\* CompressType::encode.
CompressType_encode(t) == <<B(t)>>

\* CompressType::decode: [ok, type, rest].
CompressType_decode(s) ==
    IF s = <<>> \/ ~IsB(s[1]) THEN [ok |-> FALSE]
    ELSE IF s[1].b \notin {Uncompressed, CompressedNoSchema, Compressed, DictCompressed}
    THEN [ok |-> FALSE]
    ELSE [ok |-> TRUE, type |-> s[1].b, rest |-> Tail(s)]

\* ------------------------------------------------------------ NoSchema

\* NoSchema::encode_doc: [panic, buf].
encode_doc(doc, out) ==
    IF ~(Document_len(doc) <= MAX_DOC_SIZE)
    THEN [panic |-> TRUE, buf |-> out \o CompressType_encode(Uncompressed)]
    ELSE [panic |-> FALSE,
          buf |-> (out \o CompressType_encode(Uncompressed)) \o raw_doc(doc)]

\* NoSchema::compress.
compress(raw, level, out) == out \o zstd_compress(raw, level)

\* The tag were NoSchema::compress_doc to overlook the schema hash.
compress_doc_type_no_schema(doc) == CompressedNoSchema

\* The compression tag NoSchema::compress_doc writes.
compress_doc_type(doc) ==
    IF is_some(schema_hash(doc)) THEN Compressed ELSE CompressedNoSchema

\* The length of the schema-hash header NoSchema::compress_doc leaves as it is.
compress_doc_header_len(doc) ==
    IF is_some(schema_hash(doc)) THEN parse_schema_hash(raw_doc(doc)).len ELSE 0

\* NoSchema::compress_doc: [panic, buf].
compress_doc(doc, level, out) ==
    [panic |-> FALSE,
     buf |-> compress(From(raw_doc(doc), compress_doc_header_len(doc) + 1), level,
                      (out \o CompressType_encode(compress_doc_type(doc)))
                      \o Upto(raw_doc(doc), compress_doc_header_len(doc)))]

\* NoSchema::encode_entry: [panic, buf].
encode_entry(entry, out) ==
    IF ~(Entry_len(entry) <= MAX_ENTRY_SIZE)
    THEN [panic |-> TRUE, buf |-> out \o CompressType_encode(Uncompressed)]
    ELSE [panic |-> FALSE,
          buf |-> (out \o CompressType_encode(Uncompressed)) \o raw_entry(entry)]

\* NoSchema::compress_entry: [panic, buf].
compress_entry(entry, level, out) ==
    [panic |-> FALSE,
     buf |-> compress(raw_entry(entry), level,
                      out \o CompressType_encode(CompressedNoSchema))]

\* A decoder's error return: [ok, err, alloc], alloc listing the sizes of
\* the buffers allocated up to the return, in order.
Failed(err, alloc) == [ok |-> FALSE, err |-> err, alloc |-> alloc]

\* NoSchema::decode_raw, CompressedNoSchema, from decompress_dctx's result r on.
decode_raw_decompressed(compressed, expected_len, r) ==
    IF ~r.ok THEN Failed("Decompress", <<Len(compressed), expected_len>>)
    ELSE [ok |-> TRUE, err |-> "", doc |-> r.out, compressed |-> Some(compressed),
          alloc |-> <<Len(compressed), expected_len>>]

\* NoSchema::decode_raw, CompressedNoSchema: the compressed data is saved
\* off, then the advertised size is checked, then the data is decompressed.
decode_raw_compressed(max_size, compressed, rest, expected_len) ==
    IF expected_len > max_size THEN Failed("TooLarge", <<Len(compressed)>>)
    ELSE decode_raw_decompressed(compressed, expected_len,
                                 zstd_decompress(expected_len, rest))

\* NoSchema::decode_raw, from the result ct of CompressType::decode on.
decode_raw_type(max_size, ct) ==
    IF ~ct.ok THEN Failed("CompressType", <<>>)
    ELSE IF ct.type = Uncompressed
    THEN IF Len(ct.rest) > max_size THEN Failed("TooLarge", <<>>)
         ELSE [ok |-> TRUE, err |-> "", doc |-> ct.rest, compressed |-> None,
               alloc |-> <<Len(ct.rest)>>]
    ELSE IF ct.type = CompressedNoSchema
    THEN decode_raw_compressed(max_size, CompressType_encode(ct.type) \o ct.rest,
                               ct.rest, get_frame_content_size(ct.rest))
    ELSE Failed("UsesSchema", <<>>)

\* NoSchema::decode_raw: [ok, err, doc, compressed, alloc].
decode_raw(max_size, s) == decode_raw_type(max_size, CompressType_decode(s))

\* The signers read so far, r being what the rest of the tail gave.
signer_then(id, r) ==
    IF ~r.ok THEN r ELSE [ok |-> TRUE, err |-> "", signed_by |-> <<id>> \o r.signed_by]

RECURSIVE read_signatures(_, _, _)

\* One signature decoded as sig at the head of tail, were it never verified.
read_signature_unverified(tail, verify, hash, sig) ==
    IF ~sig.ok THEN [ok |-> FALSE, err |-> "InvalidSignature"]
    ELSE signer_then(sig.signed_by, read_signatures(From(tail, sig.len + 1), verify, hash))
\* One signature decoded as sig at the head of tail.
read_signature(tail, verify, hash, sig) ==
    IF ~sig.ok THEN [ok |-> FALSE, err |-> "InvalidSignature"]
    ELSE IF verify /\ ~Signature_verify(sig, hash)
    THEN [ok |-> FALSE, err |-> "VerifyFailed"]
    ELSE signer_then(sig.signed_by, read_signatures(From(tail, sig.len + 1), verify, hash))

\* The "get signatures" loop of the decoders: the signers of the signatures
\* in tail, in order: [ok, err, signed_by].  With verify set (the strict
\* decoders), each signature must verify against hash.
read_signatures(tail, verify, hash) ==
    IF Len(tail) = 0 THEN [ok |-> TRUE, err |-> "", signed_by |-> <<>>]
    ELSE read_signature(tail, verify, hash, Signature_decode(tail))

\* NoSchema::trusted_decode_doc were it to compute the hash whatever it is given.
trusted_doc_signed_rehash(raw, doc_len, hash, sigs) ==
    IF ~sigs.ok THEN Failed(sigs.err, raw.alloc)
    ELSE [ok |-> TRUE, err |-> "", alloc |-> raw.alloc,
          doc |-> hashed_doc(doc_hashes(raw.doc, doc_len), doc_len, raw.doc,
                             raw.compressed, sigs.signed_by)]

\* NoSchema::trusted_decode_doc, from the signatures read as sigs on.
trusted_doc_signed(raw, doc_len, hash, sigs) ==
    IF ~sigs.ok THEN Failed(sigs.err, raw.alloc)
    ELSE [ok |-> TRUE, err |-> "", alloc |-> raw.alloc,
          doc |-> IF is_some(hash)
                  THEN Document_from_parts(None, None, unwrap(hash), doc_len, raw.doc,
                                           raw.compressed, sigs.signed_by, None)
                  ELSE hashed_doc(doc_hashes(raw.doc, doc_len), doc_len, raw.doc,
                                  raw.compressed, sigs.signed_by)]

\* NoSchema::trusted_decode_doc, from verify_value's result doc_len on.
trusted_doc_verified(raw, doc_len, hash) ==
    IF doc_len = Err THEN Failed("Value", raw.alloc)
    ELSE trusted_doc_signed(raw, doc_len, hash,
             read_signatures(From(raw.doc, doc_len + 1), FALSE, EmptyHash))

\* NoSchema::trusted_decode_doc, from decode_raw's result raw on.
trusted_doc_raw(raw, hash) ==
    IF ~raw.ok THEN Failed(raw.err, raw.alloc)
    ELSE trusted_doc_verified(raw, verify_value(raw.doc), hash)

\* NoSchema::trusted_decode_doc: [ok, err, doc, alloc].
trusted_decode_doc(s, hash) == trusted_doc_raw(decode_raw(MAX_DOC_SIZE, s), hash)

\* NoSchema::decode_doc, from the signatures read as sigs on.
decode_doc_signed(raw, doc_len, sigs) ==
    IF ~sigs.ok THEN Failed(sigs.err, raw.alloc)
    ELSE [ok |-> TRUE, err |-> "", alloc |-> raw.alloc,
          doc |-> hashed_doc(doc_hashes(raw.doc, doc_len), doc_len, raw.doc,
                             raw.compressed, sigs.signed_by)]

\* NoSchema::decode_doc, from verify_value's result doc_len on.
decode_doc_verified(raw, doc_len) ==
    IF doc_len = Err THEN Failed("Value", raw.alloc)
    ELSE decode_doc_signed(raw, doc_len,
             read_signatures(From(raw.doc, doc_len + 1), TRUE,
                             doc_hashes(raw.doc, doc_len).pre))

\* NoSchema::decode_doc were it to let a schema hash pass.
decode_doc_schema_unchecked(raw, sh) ==
    IF ~sh.ok THEN Failed("Value", raw.alloc)
    ELSE decode_doc_verified(raw, verify_value(raw.doc))

\* NoSchema::decode_doc, from parse_schema_hash's result sh on.
decode_doc_schema(raw, sh) ==
    IF ~sh.ok THEN Failed("Value", raw.alloc)
    ELSE IF is_some(sh.hash) THEN Failed("HasSchema", raw.alloc)
    ELSE decode_doc_verified(raw, verify_value(raw.doc))

\* NoSchema::decode_doc, from decode_raw's result raw on.
decode_doc_raw(raw) ==
    IF ~raw.ok THEN Failed(raw.err, raw.alloc)
    ELSE decode_doc_schema(raw, parse_schema_hash(raw.doc))

\* NoSchema::decode_doc: [ok, err, doc, alloc].
decode_doc(s) == decode_doc_raw(decode_raw(MAX_DOC_SIZE, s))

\* The entry NoSchema::trusted_decode_entry makes with from_parts.
trusted_entry_parts(raw, entry_len, doc, field, hash, signed_by) ==
    Entry_from_parts(None, None, IF is_some(hash) THEN unwrap(hash) ELSE EmptyHash,
                     doc, field, entry_len, raw.doc, signed_by, raw.compressed)

\* NoSchema::trusted_decode_entry were it to leave the hashes as from_parts
\* got them.
trusted_entry_signed_unpopulated(raw, entry_len, doc, field, hash, sigs) ==
    IF ~sigs.ok THEN Failed(sigs.err, raw.alloc)
    ELSE [ok |-> TRUE, err |-> "", alloc |-> raw.alloc,
          entry |-> trusted_entry_parts(raw, entry_len, doc, field, hash, sigs.signed_by)]

\* NoSchema::trusted_decode_entry, from the signatures read as sigs on.
trusted_entry_signed(raw, entry_len, doc, field, hash, sigs) ==
    IF ~sigs.ok THEN Failed(sigs.err, raw.alloc)
    ELSE [ok |-> TRUE, err |-> "", alloc |-> raw.alloc,
          entry |-> IF ~is_some(hash)
                    THEN populate_hash_state(
                             trusted_entry_parts(raw, entry_len, doc, field, hash,
                                                 sigs.signed_by))
                    ELSE trusted_entry_parts(raw, entry_len, doc, field, hash,
                                             sigs.signed_by)]

\* NoSchema::trusted_decode_entry, from verify_value's result entry_len on.
trusted_entry_verified(raw, entry_len, doc, field, hash) ==
    IF entry_len = Err THEN Failed("Value", raw.alloc)
    ELSE trusted_entry_signed(raw, entry_len, doc, field, hash,
             read_signatures(From(raw.doc, entry_len + 1), FALSE, EmptyHash))

\* NoSchema::trusted_decode_entry, from decode_raw's result raw on.
trusted_entry_raw(raw, doc, field, hash) ==
    IF ~raw.ok THEN Failed(raw.err, raw.alloc)
    ELSE trusted_entry_verified(raw, verify_value(raw.doc), doc, field, hash)

\* NoSchema::trusted_decode_entry: [ok, err, entry, alloc].
trusted_decode_entry(s, doc, field, hash) ==
    trusted_entry_raw(decode_raw(MAX_ENTRY_SIZE, s), doc, field, hash)

\* NoSchema::decode_entry, from the signatures read as sigs on.
decode_entry_signed(raw, entry_len, doc, field, h, sigs) ==
    IF ~sigs.ok THEN Failed(sigs.err, raw.alloc)
    ELSE [ok |-> TRUE, err |-> "", alloc |-> raw.alloc,
          entry |-> Entry_from_parts(Some(h.hash_state), Some(h.pre), h.hash, doc,
                        field, entry_len, raw.doc, sigs.signed_by, raw.compressed)]

\* NoSchema::decode_entry were it to read the signatures without verifying.
decode_entry_hashed_unverified(raw, entry_len, doc, field, h) ==
    decode_entry_signed(raw, entry_len, doc, field, h,
        read_signatures(From(raw.doc, entry_len + 1), FALSE, h.pre))

\* NoSchema::decode_entry, from the hashes h computed of the raw bytes on.
decode_entry_hashed(raw, entry_len, doc, field, h) ==
    decode_entry_signed(raw, entry_len, doc, field, h,
        read_signatures(From(raw.doc, entry_len + 1), TRUE, h.pre))

\* NoSchema::decode_entry, from verify_value's result entry_len on.
decode_entry_verified(raw, entry_len, doc, field) ==
    IF entry_len = Err THEN Failed("Value", raw.alloc)
    ELSE decode_entry_hashed(raw, entry_len, doc, field,
             hashed(entry_body_state(doc, field, Upto(raw.doc, entry_len)),
                    From(raw.doc, entry_len + 1)))

\* NoSchema::decode_entry, from decode_raw's result raw on.
decode_entry_raw(raw, doc, field) ==
    IF ~raw.ok THEN Failed(raw.err, raw.alloc)
    ELSE decode_entry_verified(raw, verify_value(raw.doc), doc, field)

\* NoSchema::decode_entry: [ok, err, entry, alloc].
decode_entry(s, doc, field) == decode_entry_raw(decode_raw(MAX_ENTRY_SIZE, s), doc, field)

\* ------------------------------------------------------------ inputs

\* Hash::new(1, "test"), as the tests make a parent or schema hash.
FakeHash == Hash_new(<<B(116)>>)
DocHashes == {EmptyHash, FakeHash}
\* Field names: "" and "a".
Fields == {<<>>, <<97>>}
\* Document key "t".
KeyT == <<116>>

\* Entry values: a small one, one that leaves room for exactly one signature,
\* one that encodes to exactly MAX_ENTRY_SIZE, and one that is one unit longer.
EntryValues ==
    { VNil,
      VBin(Zeros(MAX_ENTRY_SIZE - SigLen - 2)),
      VBin(Zeros(MAX_ENTRY_SIZE - 2)),
      VBin(Zeros(MAX_ENTRY_SIZE - 1)) }

\* Document values: without and with a schema hash, one that encodes to
\* exactly MAX_DOC_SIZE, one that is one unit longer, one whose empty-string
\* key holds no hash, and one that is no map.
DocValues ==
    { VMap(<<>>),
      VMap(<< <<KeyT, VBool(TRUE)>> >>),
      VMap(<< <<<<>>, VHash(FakeHash)>>, <<KeyT, VBool(TRUE)>> >>),
      VMap(<< <<KeyT, VBin(Zeros(MAX_DOC_SIZE - 5))>> >>),
      VMap(<< <<KeyT, VBin(Zeros(MAX_DOC_SIZE - 4))>> >>),
      VMap(<< <<<<>>, VBool(TRUE)>> >>),
      VBin(<<>>) }

Levels == {0, 1, 3}

\* Units an altered blob may hold in place of an original one after the tag.
TamperUnits == {B(0), B(255)}
\* Bytes an altered blob may hold as its tag: the four tags and an unknown one.
TamperTags == {Uncompressed, CompressedNoSchema, Compressed, DictCompressed, 255}

HashArgs == {"none", "own", "other"}
hash_arg(sel, obj) ==
    CASE sel = "none" -> None
      [] sel = "own" -> Some(obj.hash)
      [] sel = "other" -> Some(EmptyHash)

\* The absence of a Lock, and of a validator.
NoLock == [kind |-> "none"]
NoValidator == [kind |-> "none"]

\* ------------------------------------- crypto::key, crypto::stream, sodium

\* Tag::len(): the length of an authentication tag, in units (scaled down).
TagLen == 2
\* The width of usize, in bits (scaled down).
UsizeBits == 6
UsizeMod == 2 ^ UsizeBits
IsizeMax == 2 ^ (UsizeBits - 1) - 1

\* A FullStreamKey is [version, secret]; its StreamId is derived from the
\* secret, and from_secret makes a version 1 key of a secret.
StreamKey_get_version(k) == k.version
StreamKey_get_key(k) == k.secret
StreamKey_get_id(k) == 1000 + k.secret
FullStreamKey_from_secret(s) == [version |-> 1, secret |-> s]

\* A FullKey is [version, sk] and its FullIdentity is [version, id].
FullKey_get_version(k) == k.version
FullKey_get_id(k) == 20 + k.sk
FullIdentity_get_version(id) == id.version
FullIdentity_get_id(id) == id.id

\* crypt_keypair: the public half of an ephemeral secret.
crypt_public(esk) == 50 + esk
\* The public keys the key exchange accepts.
GoodSignKeys == {21, 22}
GoodCryptKeys == {51, 52}

\* FullIdentity::calc_stream_key and FullKey::calc_stream_key: both ends of a
\* key exchange derive the same secret, and a bad public key is refused.
FullIdentity_calc_stream_key(id, esk) ==
    IF id.id \in GoodSignKeys
    THEN [ok |-> TRUE, err |-> "", key |-> 100 + 10 * (id.id - 20) + esk]
    ELSE [ok |-> FALSE, err |-> "BadKey", key |-> 0]

FullKey_calc_stream_key(k, epk) ==
    IF epk \in GoodCryptKeys
    THEN [ok |-> TRUE, err |-> "", key |-> 100 + 10 * k.sk + (epk - 50)]
    ELSE [ok |-> FALSE, err |-> "BadKey", key |-> 0]

\* XChaCha20: unit i of the key stream of (nonce, key) combined with a byte.
crypt_unit(m, i, nonce, key) == [ct |-> [m |-> m.b, i |-> i, n |-> nonce, k |-> key]]

\* Poly1305 over the associated data and the ciphertext: TagLen units.
tag_of(c, ad, nonce, key) ==
    [j \in 1..TagLen |-> [tag |-> [j |-> j, c |-> c, a |-> ad, n |-> nonce, k |-> key]]]

\* aead_encrypt: the message encrypted in place, and its tag.
aead_encrypt(message, ad, nonce, key) ==
    LET c == [i \in 1..Len(message) |-> crypt_unit(message[i], i, nonce, key)] IN
    [c |-> c, tag |-> tag_of(c, ad, nonce, key)]

\* aead_decrypt: the tag is verified first; only then is c decrypted in place.
aead_decrypt(c, ad, tag, nonce, key) ==
    IF tag = tag_of(c, ad, nonce, key)
    THEN [success |-> TRUE, m |-> [i \in 1..Len(c) |-> B(c[i].ct.m)]]
    ELSE [success |-> FALSE, m |-> c]

\* --------------------------------------------------------- crypto::lock

LockType_Identity(pk, epk) == [t |-> "Identity", pk |-> pk, epk |-> epk]
LockType_Stream(id) == [t |-> "Stream", id |-> id]

LockType_to_u8(self) == IF self.t = "Identity" THEN 1 ELSE 2

LockType_len(self) == 1 + (IF self.t = "Identity" THEN 2 ELSE 1)

LockType_write(self, wr) ==
    IF self.t = "Identity"
    THEN wr \o <<B(LockType_to_u8(self)), B(self.pk), B(self.epk)>>
    ELSE wr \o <<B(LockType_to_u8(self)), B(self.id)>>

\* The result of a read: what was read, and what is left in the reader.
LockType_read(rd) ==
    IF Len(rd) < 1 THEN [ok |-> FALSE, err |-> "Io", rest |-> rd]
    ELSE LET id == rd[1].b IN
         CASE id = 1 ->
                IF Len(rd) < 3 THEN [ok |-> FALSE, err |-> "Io", rest |-> <<>>]
                ELSE [ok |-> TRUE, err |-> "", rest |-> From(rd, 4),
                      type_id |-> LockType_Identity(rd[2].b, rd[3].b)]
           [] id = 2 ->
                IF Len(rd) < 2 THEN [ok |-> FALSE, err |-> "Io", rest |-> <<>>]
                ELSE [ok |-> TRUE, err |-> "", rest |-> From(rd, 3),
                      type_id |-> LockType_Stream(rd[2].b)]
           [] OTHER -> [ok |-> FALSE, err |-> "UnsupportedVersion", rest |-> Tail(rd)]

Lock_from_stream(k, nonce) ==
    LET version == StreamKey_get_version(k) IN
    IF version # 1 THEN [ok |-> FALSE, err |-> "UnsupportedVersion", lock |-> NoLock]
    ELSE [ok |-> TRUE, err |-> "",
          lock |-> [version |-> version,
                    type_id |-> LockType_Stream(StreamKey_get_id(k)),
                    key |-> StreamKey_get_key(k),
                    nonce |-> nonce,
                    decoded |-> TRUE]]

Lock_from_identity(id, nonce, esk) ==
    LET version == FullIdentity_get_version(id)
        epk == crypt_public(esk)
        k == FullIdentity_calc_stream_key(id, esk)
    IN  IF version # 1
        THEN [ok |-> FALSE, err |-> "UnsupportedVersion", lock |-> NoLock, stream |-> None]
        ELSE IF ~k.ok
        THEN [ok |-> FALSE, err |-> k.err, lock |-> NoLock, stream |-> None]
        ELSE [ok |-> TRUE, err |-> "",
              lock |-> [version |-> version,
                        type_id |-> LockType_Identity(FullIdentity_get_id(id), epk),
                        key |-> StreamKey_get_key(FullStreamKey_from_secret(k.key)),
                        nonce |-> nonce,
                        decoded |-> TRUE],
              stream |-> Some(FullStreamKey_from_secret(k.key))]

Lock_get_version(self) == self.version

Lock_len(self) == 1 + LockType_len(self.type_id) + 1

encrypt_len(message_len) == message_len + TagLen

\* encrypt that writes the ciphertext over the output instead of appending.
Lock_encrypt_overwrite(self, message, ad, out) ==
    IF ~self.decoded THEN [ok |-> FALSE, err |-> "BadKey", out |-> out]
    ELSE LET e == aead_encrypt(message, ad, self.nonce, self.key) IN
         [ok |-> TRUE, err |-> "", out |-> e.c \o e.tag]

Lock_encrypt(self, message, ad, out) ==
    IF ~self.decoded THEN [ok |-> FALSE, err |-> "BadKey", out |-> out]
    ELSE LET e == aead_encrypt(message, ad, self.nonce, self.key) IN
         [ok |-> TRUE, err |-> "", out |-> (out \o e.c) \o e.tag]

\* crypt.len() - Tag::len() in usize: a debug build panics when it
\* underflows, a release build wraps.
decrypt_m_len(crypt, build) ==
    IF Len(crypt) < TagLen /\ build = "debug"
    THEN [panic |-> TRUE, err |-> "attempt to subtract with overflow", n |-> 0]
    ELSE [panic |-> FALSE, err |-> "", n |-> (Len(crypt) - TagLen) % UsizeMod]

\* Vec::reserve panics when the new capacity exceeds isize::MAX.
reserve_panics(out, additional) == Len(out) + additional > IsizeMax

Lock_decrypt(self, crypt, ad, out, build) ==
    IF ~self.decoded THEN [ok |-> FALSE, err |-> "BadKey", panic |-> FALSE, out |-> out]
    ELSE LET m_len == decrypt_m_len(crypt, build) IN
         IF m_len.panic
         THEN [ok |-> FALSE, err |-> m_len.err, panic |-> TRUE, out |-> out]
         ELSE IF reserve_panics(out, m_len.n)
         THEN [ok |-> FALSE, err |-> "capacity overflow", panic |-> TRUE, out |-> out]
         ELSE IF m_len.n > Len(crypt)
         THEN [ok |-> FALSE, err |-> "slice index out of range", panic |-> TRUE, out |-> out]
         ELSE LET d == aead_decrypt(Upto(crypt, m_len.n), ad, From(crypt, m_len.n + 1),
                                    self.nonce, self.key) IN
              IF d.success
              THEN [ok |-> TRUE, err |-> "", panic |-> FALSE, out |-> out \o d.m]
              ELSE [ok |-> FALSE, err |-> "DecryptFailed", panic |-> FALSE, out |-> out \o d.m]

Lock_write(self, wr) ==
    LockType_write(self.type_id, Append(wr, B(self.version))) \o <<B(self.nonce)>>

Lock_read(rd) ==
    IF Len(rd) < 1 THEN [ok |-> FALSE, err |-> "Io", lock |-> NoLock]
    ELSE LET version == rd[1].b
             t == LockType_read(Tail(rd))
         IN  IF ~t.ok THEN [ok |-> FALSE, err |-> t.err, lock |-> NoLock]
             ELSE IF Len(t.rest) < 1 THEN [ok |-> FALSE, err |-> "Io", lock |-> NoLock]
             ELSE [ok |-> TRUE, err |-> "",
                   lock |-> [version |-> version,
                             type_id |-> t.type_id,
                             key |-> 0,
                             nonce |-> t.rest[1].b,
                             decoded |-> FALSE]]

needs(self) == IF self.decoded THEN None ELSE Some(self.type_id)

get_stream(self) ==
    IF ~self.decoded THEN None ELSE Some(FullStreamKey_from_secret(self.key))

\* decode_stream without the comparison of the stream ids.
decode_stream_any_id(self, k) ==
    IF self.type_id.t = "Identity" THEN [ok |-> FALSE, err |-> "BadKey", lock |-> self]
    ELSE IF self.version # StreamKey_get_version(k)
    THEN [ok |-> FALSE, err |-> "BadKey", lock |-> self]
    ELSE [ok |-> TRUE, err |-> "",
          lock |-> [self EXCEPT !.key = StreamKey_get_key(k), !.decoded = TRUE]]

decode_stream(self, k) ==
    IF self.type_id.t = "Identity" THEN [ok |-> FALSE, err |-> "BadKey", lock |-> self]
    ELSE IF self.type_id.id # StreamKey_get_id(k)
    THEN [ok |-> FALSE, err |-> "BadKey", lock |-> self]
    ELSE IF self.version # StreamKey_get_version(k)
    THEN [ok |-> FALSE, err |-> "BadKey", lock |-> self]
    ELSE [ok |-> TRUE, err |-> "",
          lock |-> [self EXCEPT !.key = StreamKey_get_key(k), !.decoded = TRUE]]

\* decode_identity without the comparison of the versions.
decode_identity_any_version(self, k) ==
    IF self.type_id.t = "Stream" THEN [ok |-> FALSE, err |-> "BadKey", lock |-> self]
    ELSE IF self.type_id.pk # FullKey_get_id(k)
    THEN [ok |-> FALSE, err |-> "BadKey", lock |-> self]
    ELSE LET key == FullKey_calc_stream_key(k, self.type_id.epk) IN
         IF ~key.ok THEN [ok |-> FALSE, err |-> key.err, lock |-> self]
         ELSE [ok |-> TRUE, err |-> "",
               lock |-> [self EXCEPT !.key = key.key, !.decoded = TRUE]]

decode_identity(self, k) ==
    IF self.type_id.t = "Stream" THEN [ok |-> FALSE, err |-> "BadKey", lock |-> self]
    ELSE IF self.type_id.pk # FullKey_get_id(k)
    THEN [ok |-> FALSE, err |-> "BadKey", lock |-> self]
    ELSE IF self.version # FullKey_get_version(k)
    THEN [ok |-> FALSE, err |-> "BadKey", lock |-> self]
    ELSE LET key == FullKey_calc_stream_key(k, self.type_id.epk) IN
         IF ~key.ok THEN [ok |-> FALSE, err |-> key.err, lock |-> self]
         ELSE [ok |-> TRUE, err |-> "",
               lock |-> [self EXCEPT !.key = key.key, !.decoded = TRUE]]

\* ------------------------------------------------------ validator (queries)

\* The largest count of seconds of a timestamp, i64::MAX (scaled down); the
\* smallest is its negative.
MaxSec == 1
\* The largest count of nanoseconds of a timestamp (scaled down).
MaxNano == 1

\* A Timestamp: seconds since the epoch and nanoseconds within the second.
Timestamp(sec, nano) == [sec |-> sec, nano |-> nano]
Timestamps == [sec : (0 - MaxSec)..MaxSec, nano : 0..MaxNano]

\* Timestamp::zero(), Timestamp::min_value() and Timestamp::max_value().
ZERO_TIME == Timestamp(0, 0)
MIN_TIME == Timestamp(0 - MaxSec, 0)
MAX_TIME == Timestamp(MaxSec, MaxNano)

\* The order of timestamps: by seconds, then by nanoseconds.
Timestamp_lt(a, b) == IF a.sec = b.sec THEN a.nano < b.nano ELSE a.sec < b.sec
Timestamp_le(a, b) == IF a = b THEN TRUE ELSE Timestamp_lt(a, b)

\* Timestamps off the extremes, for validators that narrow the range or list
\* values.
AFTER_MIN == Timestamp(0 - MaxSec, MaxNano)
BEFORE_MAX == Timestamp(MaxSec, 0)
\* u32::MAX, the default of max_len (scaled down).
U32_MAX == 3

time_is_min(v) == v = MIN_TIME
time_is_max(v) == v = MAX_TIME
u32_is_zero(v) == v = 0
u32_is_max(v) == v = U32_MAX

Validator_Any == [kind |-> "Any"]
Validator_Multi(list) == [kind |-> "Multi", list |-> list]
validator_is_any(v) == v.kind = "Any"

TimeValidator_default ==
    [kind |-> "Time",
     max |-> MAX_TIME, min |-> MIN_TIME, ex_max |-> FALSE, ex_min |-> FALSE,
     in_list |-> <<>>, nin_list |-> <<>>,
     query |-> FALSE, ord |-> FALSE]

ArrayValidator_default ==
    [kind |-> "Array",
     contains |-> <<>>, items |-> Validator_Any, prefix |-> <<>>,
     max_len |-> U32_MAX, min_len |-> 0,
     in_list |-> <<>>, nin_list |-> <<>>, same_len |-> {},
     extend |-> FALSE, unique |-> FALSE,
     query |-> FALSE, array |-> FALSE, contains_ok |-> FALSE, unique_ok |-> FALSE,
     size |-> FALSE, same_len_ok |-> FALSE]

Time_query_check_self(self, other) ==
    /\ IF self.query THEN TRUE ELSE other.in_list = <<>> /\ other.nin_list = <<>>
    /\ IF self.ord THEN TRUE
       ELSE ~other.ex_min /\ ~other.ex_max /\ time_is_min(other.min) /\ time_is_max(other.max)

Time_query_check(self, other) ==
    CASE other.kind = "Time" -> Time_query_check_self(self, other)
      [] other.kind = "Multi" ->
           \A i \in DOMAIN other.list :
               IF other.list[i].kind = "Time"
               THEN Time_query_check_self(self, other.list[i]) ELSE FALSE
      [] other.kind = "Any" -> TRUE
      [] OTHER -> FALSE

\* prefix.iter().chain(repeat(items)): the validator at index i (from 1).
chained(v, i) == IF i <= Len(v.prefix) THEN v.prefix[i] ELSE v.items

Max(a, b) == IF a >= b THEN a ELSE b

\* The initial check without the gate of same_len.
Array_initial_check_same_len_open(self, other) ==
    /\ IF self.query THEN TRUE ELSE other.in_list = <<>> /\ other.nin_list = <<>>
    /\ IF self.array THEN TRUE ELSE other.prefix = <<>> /\ validator_is_any(other.items)
    /\ IF self.contains_ok THEN TRUE ELSE other.contains = <<>>
    /\ IF self.unique_ok THEN TRUE ELSE ~other.unique
    /\ IF self.size THEN TRUE ELSE u32_is_max(other.max_len) /\ u32_is_zero(other.min_len)

Array_initial_check(self, other) ==
    /\ IF self.query THEN TRUE ELSE other.in_list = <<>> /\ other.nin_list = <<>>
    /\ IF self.array THEN TRUE ELSE other.prefix = <<>> /\ validator_is_any(other.items)
    /\ IF self.contains_ok THEN TRUE ELSE other.contains = <<>>
    /\ IF self.unique_ok THEN TRUE ELSE ~other.unique
    /\ IF self.same_len_ok THEN TRUE ELSE other.same_len = {}
    /\ IF self.size THEN TRUE ELSE u32_is_max(other.max_len) /\ u32_is_zero(other.min_len)

RECURSIVE Validator_query_check(_, _)
RECURSIVE Array_query_check_self(_, _)

Array_query_check(self, other) ==
    CASE other.kind = "Array" -> Array_query_check_self(self, other)
      [] other.kind = "Multi" ->
           \A i \in DOMAIN other.list :
               IF other.list[i].kind = "Array"
               THEN Array_query_check_self(self, other.list[i]) ELSE FALSE
      [] other.kind = "Any" -> TRUE
      [] OTHER -> FALSE

\* query_check_self were the positions of the prefix not checked.
Array_query_check_self_items_only(self, other) ==
    IF ~Array_initial_check(self, other) THEN FALSE
    ELSE IF self.contains_ok
            /\ ~(\A c \in DOMAIN other.contains :
                    /\ Validator_query_check(self.items, other.contains[c])
                    /\ \A p \in DOMAIN self.prefix :
                           Validator_query_check(self.prefix[p], other.contains[c]))
    THEN FALSE
    ELSE IF self.array
    THEN Validator_query_check(self.items, other.items)
    ELSE TRUE

Array_query_check_self(self, other) ==
    IF ~Array_initial_check(self, other) THEN FALSE
    ELSE IF self.contains_ok
            /\ ~(\A c \in DOMAIN other.contains :
                    /\ Validator_query_check(self.items, other.contains[c])
                    /\ \A p \in DOMAIN self.prefix :
                           Validator_query_check(self.prefix[p], other.contains[c]))
    THEN FALSE
    ELSE IF self.array
    THEN /\ Validator_query_check(self.items, other.items)
         /\ \A i \in 1..Max(Len(self.prefix), Len(other.prefix)) :
                Validator_query_check(chained(self, i), chained(other, i))
    ELSE TRUE

EnumValidator_default == [kind |-> "Enum", extend |-> FALSE, var |-> <<>>]

\* The arm were a query allowed to give a validator to a unit variant.
Enum_query_check_var_unit_open(mine, other_v) ==
    IF mine = None THEN FALSE
    ELSE IF is_some(unwrap(mine)) /\ is_some(other_v)
    THEN Validator_query_check(unwrap(unwrap(mine)), unwrap(other_v))
    ELSE is_none(unwrap(mine))

\* The arm of EnumValidator::query_check for the query's entry of the
\* variant k, mine being self.var.get(k).
Enum_query_check_var(mine, other_v) ==
    IF mine = None THEN FALSE
    ELSE IF is_some(unwrap(mine)) /\ is_some(other_v)
    THEN Validator_query_check(unwrap(unwrap(mine)), unwrap(other_v))
    ELSE is_none(unwrap(mine)) /\ is_none(other_v)

\* BTreeMap::get.
var_get(var, k) == IF k \in DOMAIN var THEN Some(var[k]) ELSE None

Enum_query_check(self, other) ==
    CASE other.kind = "Enum" ->
           \A other_k \in DOMAIN other.var :
               Enum_query_check_var(var_get(self.var, other_k), other.var[other_k])
      [] other.kind = "Any" -> TRUE
      [] OTHER -> FALSE

\* Validator::query_check: the schema's validator decides; Any accepts any
\* query.
Validator_query_check(self, other) ==
    CASE self.kind = "Any" -> TRUE
      [] self.kind = "Time" -> Time_query_check(self, other)
      [] self.kind = "Array" -> Array_query_check(self, other)
      [] self.kind = "Enum" -> Enum_query_check(self, other)
      [] OTHER -> FALSE

\* ---------------------------------------------------- validator (values)

\* The elements a Parser yields, in the order of the encoding: a container
\* is its header followed by its items (a map's keys and values in turn).
Element_Null == [el |-> "Null"]
Element_Int(n) == [el |-> "Int", int |-> n]
Element_Str(s) == [el |-> "Str", str |-> s]
Element_Hash(h) == [el |-> "Hash", hash |-> h]
Element_Timestamp(t) == [el |-> "Timestamp", time |-> t]
Element_Array(len) == [el |-> "Array", len |-> len]
Element_Map(len) == [el |-> "Map", len |-> len]

\* The values an element announces after itself.
announced(elem) ==
    IF elem.el = "Array" THEN elem.len ELSE IF elem.el = "Map" THEN 2 * elem.len ELSE 0

\* The parser after n whole values were read from it, or None if it ends
\* before.
RECURSIVE skip_values(_, _)
skip_values(parser, n) ==
    IF n = 0 THEN Some(parser)
    ELSE IF parser = <<>> THEN None
    ELSE skip_values(Tail(parser), n - 1 + announced(Head(parser)))

\* The first n values of the parser, each as its elements, or None if the
\* parser ends before: what deserializing an array of n items as a
\* Vec<ValueRef> gives.
RECURSIVE deserialize_items(_, _)
deserialize_items(parser, n) ==
    IF n = 0 THEN Some(<<>>)
    ELSE IF is_none(skip_values(parser, 1)) THEN None
    ELSE LET rest == unwrap(skip_values(parser, 1))
             more == deserialize_items(rest, n - 1)
         IN IF is_none(more) THEN None
            ELSE Some(<<Upto(parser, Len(parser) - Len(rest))>> \o unwrap(more))

\* What validate returns: the parser after the value and the checklist, or
\* Error::FailValidate.
Passed(parser, checklist) == [ok |-> TRUE, parser |-> parser, checklist |-> checklist]
Fail(msg) == [ok |-> FALSE, err |-> msg]

Validator_Null == [kind |-> "Null"]
\* A Hash validator that defers a constraint on the document the hash names.
Validator_Hash == [kind |-> "Hash"]

\* TimeValidator::validate were ex_min not looked at.
Time_validate_ex_min_unread(self, parser) ==
    IF parser = <<>> THEN Fail("Expected a timestamp")
    ELSE IF Head(parser).el # "Timestamp" THEN Fail("Expected Time")
    ELSE LET val == Head(parser).time
             max_pass == IF self.ex_max THEN Timestamp_lt(val, self.max)
                         ELSE Timestamp_le(val, self.max)
         IN IF ~max_pass THEN Fail("Timestamp greater than maximum allowed")
            ELSE IF ~Timestamp_le(self.min, val) THEN Fail("Timestamp less than minimum allowed")
            ELSE IF Len(self.in_list) > 0 /\ ~(\E i \in DOMAIN self.in_list : self.in_list[i] = val)
            THEN Fail("Timestamp is not on in list")
            ELSE IF \E i \in DOMAIN self.nin_list : self.nin_list[i] = val
            THEN Fail("Timestamp is on nin list")
            ELSE [ok |-> TRUE, parser |-> Tail(parser)]

\* TimeValidator::validate; it advances the caller's parser.
Time_validate(self, parser) ==
    IF parser = <<>> THEN Fail("Expected a timestamp")
    ELSE IF Head(parser).el # "Timestamp" THEN Fail("Expected Time")
    ELSE LET val == Head(parser).time
             max_pass == IF self.ex_max THEN Timestamp_lt(val, self.max)
                         ELSE Timestamp_le(val, self.max)
             min_pass == IF self.ex_min THEN Timestamp_lt(self.min, val)
                         ELSE Timestamp_le(self.min, val)
         IN IF ~max_pass THEN Fail("Timestamp greater than maximum allowed")
            ELSE IF ~min_pass THEN Fail("Timestamp less than minimum allowed")
            ELSE IF Len(self.in_list) > 0 /\ ~(\E i \in DOMAIN self.in_list : self.in_list[i] = val)
            THEN Fail("Timestamp is not on in list")
            ELSE IF \E i \in DOMAIN self.nin_list : self.nin_list[i] = val
            THEN Fail("Timestamp is on nin list")
            ELSE [ok |-> TRUE, parser |-> Tail(parser)]

RECURSIVE Validator_validate(_, _, _)

\* EnumValidator::validate were a unit variant let through with a value.
Enum_validate_variant_unit_valued(self, key, has_value, parser, checklist) ==
    IF key \notin DOMAIN self.var THEN Fail("is not in enum list")
    ELSE IF is_none(self.var[key]) THEN Passed(parser, checklist)
    ELSE IF ~has_value THEN Fail("should have an associated value")
    ELSE Validator_validate(unwrap(self.var[key]), parser, checklist)

\* EnumValidator::validate, from the variant's name on.
Enum_validate_variant(self, key, has_value, parser, checklist) ==
    IF key \notin DOMAIN self.var THEN Fail("is not in enum list")
    ELSE IF is_none(self.var[key])
    THEN IF has_value THEN Fail("shouldn't have any associated value")
         ELSE Passed(parser, checklist)
    ELSE IF ~has_value THEN Fail("should have an associated value")
    ELSE Validator_validate(unwrap(self.var[key]), parser, checklist)

\* EnumValidator::validate.
Enum_validate(self, parser, checklist) ==
    IF parser = <<>> THEN Fail("expected a enum")
    ELSE IF Head(parser).el = "Str"
    THEN Enum_validate_variant(self, Head(parser).str, FALSE, Tail(parser), checklist)
    ELSE IF Head(parser) = Element_Map(1)
    THEN IF Tail(parser) = <<>> THEN Fail("expected a string")
         ELSE IF Head(Tail(parser)).el # "Str" THEN Fail("expected a string")
         ELSE Enum_validate_variant(self, Head(Tail(parser)).str, TRUE,
                                    Tail(Tail(parser)), checklist)
    ELSE Fail("expected an enum")

\* len as u32.
as_u32(len) == len % (U32_MAX + 1)

\* ArrayValidator::validate, the requirements on the entire array; array is
\* the deserialized Vec<ValueRef>.
Array_validate_entire(self, array) ==
    IF Len(self.in_list) > 0 /\ ~(\E i \in DOMAIN self.in_list : self.in_list[i] = array)
    THEN Fail("Array is not on in list")
    ELSE IF \E i \in DOMAIN self.nin_list : self.nin_list[i] = array
    THEN Fail("Array is on nin list")
    ELSE IF self.unique
            /\ \E index \in DOMAIN array : \E rhs \in index..Len(array) : array[index] = array[rhs]
    THEN Fail("Array does not contain unique elements")
    ELSE [ok |-> TRUE]

\* The contains validators were each one tried on every item, whether
\* already passed or not.
RECURSIVE Array_validate_contains_retried(_, _, _, _, _)
Array_validate_contains_retried(self, parser, checklist, contains_result, c) ==
    IF c > Len(self.contains) THEN [contains_result |-> contains_result, checklist |-> checklist]
    ELSE LET result == Validator_validate(self.contains[c], parser, checklist) IN
         IF result.ok
         THEN Array_validate_contains_retried(self, parser, result.checklist,
                                              [contains_result EXCEPT ![c] = TRUE], c + 1)
         ELSE Array_validate_contains_retried(self, parser, checklist, contains_result, c + 1)

\* ArrayValidator::validate, the contains validators from the c-th on tried
\* on the item the parser stands at.
RECURSIVE Array_validate_contains(_, _, _, _, _)
Array_validate_contains(self, parser, checklist, contains_result, c) ==
    IF c > Len(self.contains) THEN [contains_result |-> contains_result, checklist |-> checklist]
    ELSE IF contains_result[c]
    THEN Array_validate_contains(self, parser, checklist, contains_result, c + 1)
    ELSE LET result == Validator_validate(self.contains[c], parser, checklist) IN
         IF result.ok
         THEN Array_validate_contains(self, parser, result.checklist,
                                      [contains_result EXCEPT ![c] = TRUE], c + 1)
         ELSE Array_validate_contains(self, parser, checklist, contains_result, c + 1)

\* The check of same_len were a Null after an array let through.
Array_validate_same_len_null_open(self, parser, i, array_len, array_len_cnt) ==
    IF i \notin self.same_len
    THEN [ok |-> TRUE, array_len |-> array_len, array_len_cnt |-> array_len_cnt]
    ELSE IF parser = <<>> THEN Fail("expected an array element")
    ELSE IF Head(parser).el = "Null"
    THEN [ok |-> TRUE, array_len |-> array_len, array_len_cnt |-> array_len_cnt + 1]
    ELSE IF Head(parser).el = "Array"
    THEN IF is_some(array_len) /\ unwrap(array_len) # Head(parser).len
         THEN Fail("expected array of length")
         ELSE [ok |-> TRUE, array_len |-> Some(Head(parser).len),
               array_len_cnt |-> array_len_cnt + 1]
    ELSE Fail("same_len expected an array or null")

\* ArrayValidator::validate, the check of same_len on the item of index i
\* (from 0) the parser stands at.
Array_validate_same_len(self, parser, i, array_len, array_len_cnt) ==
    IF i \notin self.same_len
    THEN [ok |-> TRUE, array_len |-> array_len, array_len_cnt |-> array_len_cnt]
    ELSE IF parser = <<>> THEN Fail("expected an array element")
    ELSE IF Head(parser).el = "Null"
    THEN IF is_some(array_len) THEN Fail("some sub-arrays for same_len are present")
         ELSE [ok |-> TRUE, array_len |-> array_len, array_len_cnt |-> array_len_cnt]
    ELSE IF Head(parser).el = "Array"
    THEN IF is_some(array_len) /\ unwrap(array_len) # Head(parser).len
         THEN Fail("expected array of length")
         ELSE [ok |-> TRUE, array_len |-> Some(Head(parser).len),
               array_len_cnt |-> array_len_cnt + 1]
    ELSE Fail("same_len expected an array or null")

\* ArrayValidator::validate, one turn of the loop over the items: st is the
\* parser, the checklist, contains_result, array_len and array_len_cnt.
Array_validate_item(self, st, i) ==
    LET tried == Array_validate_contains(self, st.parser, st.checklist, st.contains_result, 1)
        same == Array_validate_same_len(self, st.parser, i, st.array_len, st.array_len_cnt)
    IN IF ~same.ok THEN same
       ELSE LET result == Validator_validate(chained(self, i + 1), st.parser, tried.checklist) IN
            IF ~result.ok THEN result
            ELSE [ok |-> TRUE, parser |-> result.parser, checklist |-> result.checklist,
                  contains_result |-> tried.contains_result,
                  array_len |-> same.array_len, array_len_cnt |-> same.array_len_cnt]

\* ArrayValidator::validate, the loop over the items from index i on.
RECURSIVE Array_validate_items(_, _, _, _)
Array_validate_items(self, st, i, len) ==
    IF i >= len THEN st
    ELSE IF ~Array_validate_item(self, st, i).ok THEN Array_validate_item(self, st, i)
    ELSE Array_validate_items(self, Array_validate_item(self, st, i), i + 1, len)

\* ArrayValidator::validate, after the loop.
Array_validate_end(self, st) ==
    IF ~st.ok THEN st
    ELSE IF is_some(st.array_len) /\ st.array_len_cnt # Cardinality(self.same_len)
    THEN Fail("Array had some, but not all, of the indices listed in same_len")
    ELSE IF \E c \in DOMAIN st.contains_result : ~st.contains_result[c]
    THEN Fail("Array was missing items satisfying contains list")
    ELSE Passed(st.parser, st.checklist)

\* ArrayValidator::validate, from the requirements on the entire array on.
Array_validate_body(self, parser, checklist, len) ==
    LET entire == self.unique \/ Len(self.in_list) > 0 \/ Len(self.nin_list) > 0
        array == deserialize_items(Tail(parser), len)
    IN IF entire /\ is_none(array) THEN Fail("deserialize")
       ELSE IF entire /\ ~Array_validate_entire(self, unwrap(array)).ok
       THEN Array_validate_entire(self, unwrap(array))
       ELSE Array_validate_end(self,
                Array_validate_items(self,
                    [ok |-> TRUE, parser |-> Tail(parser), checklist |-> checklist,
                     contains_result |-> [c \in DOMAIN self.contains |-> FALSE],
                     array_len |-> None, array_len_cnt |-> 0],
                    0, len))

\* ArrayValidator::validate.
Array_validate(self, parser, checklist) ==
    IF parser = <<>> THEN Fail("Expected an array")
    ELSE IF Head(parser).el # "Array" THEN Fail("Expected Array")
    ELSE IF as_u32(Head(parser).len) > self.max_len THEN Fail("longer than maximum allowed")
    ELSE IF as_u32(Head(parser).len) < self.min_len THEN Fail("shorter than minimum allowed")
    ELSE Array_validate_body(self, parser, checklist, Head(parser).len)

\* Validator::validate: each validator reads one value off the parser. Any
\* reads a value of any type; Hash puts the hash on the checklist.
Validator_validate(self, parser, checklist) ==
    CASE self.kind = "Any" ->
            IF is_none(skip_values(parser, 1)) THEN Fail("Expected a value")
            ELSE Passed(unwrap(skip_values(parser, 1)), checklist)
      [] self.kind = "Null" ->
            IF parser = <<>> THEN Fail("Expected a null")
            ELSE IF Head(parser).el # "Null" THEN Fail("Expected Null")
            ELSE Passed(Tail(parser), checklist)
      [] self.kind = "Hash" ->
            IF parser = <<>> THEN Fail("Expected a hash")
            ELSE IF Head(parser).el # "Hash" THEN Fail("Expected Hash")
            ELSE Passed(Tail(parser), Append(checklist, Head(parser).hash))
      [] self.kind = "Time" ->
            IF Time_validate(self, parser).ok
            THEN Passed(Time_validate(self, parser).parser, checklist)
            ELSE Time_validate(self, parser)
      [] self.kind = "Array" -> Array_validate(self, parser, checklist)
      [] self.kind = "Enum" -> Enum_validate(self, parser, checklist)
      [] OTHER -> Fail("not modelled")

\* ------------------------------------------------------------ state machine

\* No entry or document was made yet.
EntryIdle ==
    /\ x = NoObj /\ y = NoObj
    /\ buf = <<>> /\ sent = NoSent /\ prov = NoProv
    /\ last = [op |-> "init", ok |-> TRUE, err |-> ""]

\* No Lock was made yet.
LockIdle ==
    /\ lk = NoLock /\ lkd = NoLock
    /\ wire = <<>> /\ ciphertext = <<>> /\ plaintext = <<>>
    /\ lres = [op |-> "init", ok |-> TRUE, err |-> ""]

\* No validator was asked anything yet.
ValidatorIdle ==
    /\ schema = NoValidator /\ query = NoValidator
    /\ allowed = None
    /\ input = <<>> /\ outcome = None

Init ==
    /\ EntryIdle /\ LockIdle /\ ValidatorIdle

NewEntry(doc, field, v) ==
    /\ x = NoObj
    /\ LET r == Entry_new(doc, field, v) IN
       /\ x' = IF r.ok THEN r.entry ELSE NoObj
       /\ last' = [op |-> "Entry::new", ok |-> r.ok, err |-> IF r.ok THEN "" ELSE "TooLarge",
                   len |-> Len(write_value(v))]
    /\ UNCHANGED <<y, buf, sent, prov>>
    /\ UNCHANGED <<LockVars, ValidatorVars>>

NewDoc(v) ==
    /\ x = NoObj
    /\ LET r == Document_new(v) IN
       /\ x' = IF r.ok THEN r.doc ELSE NoObj
       /\ last' = [op |-> "Document::new", ok |-> r.ok, err |-> IF r.ok THEN "" ELSE "Invalid",
                   len |-> Len(write_value(v))]
    /\ UNCHANGED <<y, buf, sent, prov>>
    /\ UNCHANGED <<LockVars, ValidatorVars>>

\* Signatures appended so far: to x since new and to y since its decoding.
Appended ==
    (IF x = NoObj THEN 0 ELSE Len(x.signed_by))
    + (IF y = NoObj THEN 0 ELSE Len(y.signed_by) - prov.nsig)

\* y is what a trusted decoder made of the unaltered blob of sent.obj, given
\* the (doc, field) of an entry, and given no hash or the hash of sent.obj.
Faithful ==
    /\ y # NoObj /\ ~sent.tampered
    /\ prov.mode = "trusted" /\ prov.arg.hash \in {"none", "own"}
    /\ (IF y.kind = "entry"
        THEN prov.arg.doc = sent.obj.doc /\ prov.arg.field = sent.obj.field
        ELSE TRUE)

\* The sign calls explored: up to MaxSigns signatures, none once the blob
\* was altered, and once it was decoded only next to a faithful copy.
CanSign ==
    /\ Appended < MaxSigns
    /\ (IF sent = NoSent THEN TRUE ELSE ~sent.tampered)
    /\ (IF y = NoObj THEN TRUE ELSE Faithful)

SignEntry(k) ==
    /\ x.kind = "entry" /\ CanSign
    /\ LET r == Entry_sign(x, k) IN
       /\ x' = r.entry
       /\ last' = [op |-> "Entry::sign", ok |-> r.ok, err |-> r.err, on |-> "x", key |-> k]
    /\ UNCHANGED <<y, buf, sent, prov>>
    /\ UNCHANGED <<LockVars, ValidatorVars>>

SignDoc(k) ==
    /\ x.kind = "doc" /\ CanSign
    /\ LET r == Document_sign(x, k) IN
       /\ x' = r.doc
       /\ last' = [op |-> "Document::sign", ok |-> r.ok, err |-> r.err, on |-> "x", key |-> k]
    /\ UNCHANGED <<y, buf, sent, prov>>
    /\ UNCHANGED <<LockVars, ValidatorVars>>

SignDecodedEntry(k) ==
    /\ y.kind = "entry" /\ CanSign
    /\ LET r == Entry_sign(y, k) IN
       /\ y' = r.entry
       /\ last' = [op |-> "Entry::sign", ok |-> r.ok, err |-> r.err, on |-> "y", key |-> k]
    /\ UNCHANGED <<x, buf, sent, prov>>
    /\ UNCHANGED <<LockVars, ValidatorVars>>

SignDecodedDoc(k) ==
    /\ y.kind = "doc" /\ CanSign
    /\ LET r == Document_sign(y, k) IN
       /\ y' = r.doc
       /\ last' = [op |-> "Document::sign", ok |-> r.ok, err |-> r.err, on |-> "y", key |-> k]
    /\ UNCHANGED <<x, buf, sent, prov>>
    /\ UNCHANGED <<LockVars, ValidatorVars>>

\* The effect of an encoder call that returned r on the buffer.
Encoded(op, how, r) ==
    /\ buf' = r.buf
    /\ sent' = IF r.panic THEN NoSent
               ELSE [how |-> how, obj |-> x, tampered |-> FALSE, at |-> 0]
    /\ last' = [op |-> op, ok |-> ~r.panic, err |-> IF r.panic THEN "panic" ELSE ""]
    /\ UNCHANGED <<x, y, prov>>
    /\ UNCHANGED <<LockVars, ValidatorVars>>

EncodeEntry ==
    /\ x.kind = "entry" /\ sent = NoSent
    /\ Encoded("encode_entry", "encode", encode_entry(x, <<>>))

CompressEntry(level) ==
    /\ x.kind = "entry" /\ sent = NoSent
    /\ Encoded("compress_entry", "compress", compress_entry(x, level, <<>>))

EncodeDoc ==
    /\ x.kind = "doc" /\ sent = NoSent
    /\ Encoded("encode_doc", "encode", encode_doc(x, <<>>))

CompressDoc(level) ==
    /\ x.kind = "doc" /\ sent = NoSent
    /\ Encoded("compress_doc", "compress", compress_doc(x, level, <<>>))

\* The blob's tag is altered on its way to the decoder.
Retag(t) ==
    /\ sent # NoSent /\ ~sent.tampered /\ y = NoObj /\ x = sent.obj
    /\ buf[1] # B(t)
    /\ buf' = [buf EXCEPT ![1] = B(t)]
    /\ sent' = [sent EXCEPT !.tampered = TRUE, !.at = 1]
    /\ last' = [op |-> "tamper", ok |-> TRUE, err |-> "", at |-> 1]
    /\ UNCHANGED <<x, y, prov>>
    /\ UNCHANGED <<LockVars, ValidatorVars>>

\* The blob is altered in one unit after the tag on its way to the decoder.
Tamper(i, u) ==
    /\ sent # NoSent /\ ~sent.tampered /\ y = NoObj /\ x = sent.obj
    /\ i \in 2..Len(buf) /\ buf[i] # u
    /\ buf' = [buf EXCEPT ![i] = u]
    /\ sent' = [sent EXCEPT !.tampered = TRUE, !.at = i]
    /\ last' = [op |-> "tamper", ok |-> TRUE, err |-> "", at |-> i]
    /\ UNCHANGED <<x, y, prov>>
    /\ UNCHANGED <<LockVars, ValidatorVars>>

\* The blob loses its last unit on its way to the decoder.
Truncate ==
    /\ sent # NoSent /\ ~sent.tampered /\ y = NoObj /\ x = sent.obj
    /\ Len(buf) > 0
    /\ buf' = Upto(buf, Len(buf) - 1)
    /\ sent' = [sent EXCEPT !.tampered = TRUE, !.at = Len(buf)]
    /\ last' = [op |-> "truncate", ok |-> TRUE, err |-> "", at |-> Len(buf)]
    /\ UNCHANGED <<x, y, prov>>
    /\ UNCHANGED <<LockVars, ValidatorVars>>

\* The effect of a decoder call that returned r, obj being the object it made.
Decoded(op, mode, r, obj, arg) ==
    /\ y' = IF r.ok THEN obj ELSE NoObj
    /\ prov' = IF r.ok THEN [mode |-> mode, arg |-> arg, nsig |-> Len(obj.signed_by)]
               ELSE NoProv
    /\ last' = [op |-> op, ok |-> r.ok, err |-> r.err, alloc |-> r.alloc]
    /\ UNCHANGED <<x, buf, sent>>
    /\ UNCHANGED <<LockVars, ValidatorVars>>

TrustedDecodeEntry(doc, field, sel) ==
    /\ sent # NoSent /\ sent.obj.kind = "entry" /\ y = NoObj
    /\ LET r == trusted_decode_entry(buf, doc, field, hash_arg(sel, sent.obj)) IN
       Decoded("trusted_decode_entry", "trusted", r, IF r.ok THEN r.entry ELSE NoObj,
               [doc |-> doc, field |-> field, hash |-> sel])

DecodeEntry(doc, field) ==
    /\ sent # NoSent /\ sent.obj.kind = "entry" /\ y = NoObj
    /\ LET r == decode_entry(buf, doc, field) IN
       Decoded("decode_entry", "strict", r, IF r.ok THEN r.entry ELSE NoObj,
               [doc |-> doc, field |-> field, hash |-> "none"])

TrustedDecodeDoc(sel) ==
    /\ sent # NoSent /\ sent.obj.kind = "doc" /\ y = NoObj
    /\ LET r == trusted_decode_doc(buf, hash_arg(sel, sent.obj)) IN
       Decoded("trusted_decode_doc", "trusted", r, IF r.ok THEN r.doc ELSE NoObj,
               [hash |-> sel])

DecodeDoc ==
    /\ sent # NoSent /\ sent.obj.kind = "doc" /\ y = NoObj
    /\ LET r == decode_doc(buf) IN
       Decoded("decode_doc", "strict", r, IF r.ok THEN r.doc ELSE NoObj,
               [hash |-> "none"])

Next ==
    \/ \E doc \in DocHashes, field \in Fields, v \in EntryValues : NewEntry(doc, field, v)
    \/ \E v \in DocValues : NewDoc(v)
    \/ \E k \in Keys : SignEntry(k)
    \/ \E k \in Keys : SignDoc(k)
    \/ \E k \in Keys : SignDecodedEntry(k)
    \/ \E k \in Keys : SignDecodedDoc(k)
    \/ EncodeEntry
    \/ \E level \in Levels : CompressEntry(level)
    \/ EncodeDoc
    \/ \E level \in Levels : CompressDoc(level)
    \/ \E t \in TamperTags : Retag(t)
    \/ \E i \in 2..Len(buf), u \in TamperUnits : Tamper(i, u)
    \/ Truncate
    \/ \E doc \in DocHashes, field \in Fields, sel \in HashArgs :
          TrustedDecodeEntry(doc, field, sel)
    \/ \E doc \in DocHashes, field \in Fields : DecodeEntry(doc, field)
    \/ \E sel \in HashArgs : TrustedDecodeDoc(sel)
    \/ DecodeDoc

Spec == Init /\ [][Next]_vars

\* -------------------------------------------------- state machine of a Lock

\* Units of output the encrypt and decrypt calls explored may fill.
MaxCipher == 5
MaxPlain == 2

StreamKeys ==
    {[version |-> 1, secret |-> 1], [version |-> 1, secret |-> 2],
     [version |-> 2, secret |-> 1]}
FullKeys == {[version |-> 1, sk |-> 1], [version |-> 1, sk |-> 2], [version |-> 2, sk |-> 1]}
Identities == {[version |-> 1, id |-> 21], [version |-> 2, id |-> 21], [version |-> 1, id |-> 20]}
Nonces == {1, 2}
EphemeralSecrets == {1, 2}
Messages == {<<>>, <<B(0)>>, <<B(0), B(1)>>}
AssocData == {<<>>, <<B(0)>>}
WireUnits == {B(0), B(1), B(2), B(3), B(22), B(1002)}
Builds == {"debug", "release"}
Holders == {"lk", "lkd"}

LockInit ==
    /\ EntryIdle /\ LockIdle /\ ValidatorIdle

FromStream(k, nonce) ==
    /\ lk = NoLock /\ lres.op = "init"
    /\ LET r == Lock_from_stream(k, nonce) IN
       /\ lk' = r.lock
       /\ lres' = [op |-> "from_stream", ok |-> r.ok, err |-> r.err, version |-> k.version]
    /\ UNCHANGED <<wire, lkd, ciphertext, plaintext>>
    /\ UNCHANGED <<EntryVars, ValidatorVars>>

FromIdentity(id, nonce, esk) ==
    /\ lk = NoLock /\ lres.op = "init"
    /\ LET r == Lock_from_identity(id, nonce, esk) IN
       /\ lk' = r.lock
       /\ lres' = [op |-> "from_identity", ok |-> r.ok, err |-> r.err, version |-> id.version,
                   stream |-> r.stream]
    /\ UNCHANGED <<wire, lkd, ciphertext, plaintext>>
    /\ UNCHANGED <<EntryVars, ValidatorVars>>

WriteLock ==
    /\ lk # NoLock /\ wire = <<>> /\ lkd = NoLock /\ plaintext = <<>>
    /\ wire' = Lock_write(lk, <<>>)
    /\ lres' = [op |-> "write", ok |-> TRUE, err |-> ""]
    /\ UNCHANGED <<lk, lkd, ciphertext, plaintext>>
    /\ UNCHANGED <<EntryVars, ValidatorVars>>

\* The serialized lock is altered in one unit on its way to the reader.
AlterWire(i, u) ==
    /\ lk # NoLock /\ lkd = NoLock
    /\ wire = Lock_write(lk, <<>>) /\ ciphertext = <<>> /\ lres.op = "write"
    /\ i \in 1..Len(wire) /\ wire[i] # u
    /\ wire' = [wire EXCEPT ![i] = u]
    /\ lres' = [op |-> "alter", ok |-> TRUE, err |-> ""]
    /\ UNCHANGED <<lk, lkd, ciphertext, plaintext>>
    /\ UNCHANGED <<EntryVars, ValidatorVars>>

\* The serialized lock loses its last unit on its way to the reader.
TruncateWire ==
    /\ lk # NoLock /\ lkd = NoLock
    /\ wire = Lock_write(lk, <<>>) /\ ciphertext = <<>> /\ lres.op = "write"
    /\ wire' = Upto(wire, Len(wire) - 1)
    /\ lres' = [op |-> "alter", ok |-> TRUE, err |-> ""]
    /\ UNCHANGED <<lk, lkd, ciphertext, plaintext>>
    /\ UNCHANGED <<EntryVars, ValidatorVars>>

ReadLock ==
    /\ lk # NoLock /\ lkd = NoLock /\ wire # <<>>
    /\ LET r == Lock_read(wire) IN
       /\ lkd' = r.lock
       /\ lres' = [op |-> "read", ok |-> r.ok, err |-> r.err]
    /\ UNCHANGED <<lk, wire, ciphertext, plaintext>>
    /\ UNCHANGED <<EntryVars, ValidatorVars>>

DecodeStream(k) ==
    /\ lkd # NoLock /\ lres.op \in {"read", "decode_stream", "decode_identity"}
    /\ LET r == decode_stream(lkd, k) IN
       /\ lkd' = r.lock
       /\ lres' = [op |-> "decode_stream", ok |-> r.ok, err |-> r.err, k |-> k]
    /\ UNCHANGED <<lk, wire, ciphertext, plaintext>>
    /\ UNCHANGED <<EntryVars, ValidatorVars>>

DecodeIdentity(k) ==
    /\ lkd # NoLock /\ lres.op \in {"read", "decode_stream", "decode_identity"}
    /\ LET r == decode_identity(lkd, k) IN
       /\ lkd' = r.lock
       /\ lres' = [op |-> "decode_identity", ok |-> r.ok, err |-> r.err, k |-> k]
    /\ UNCHANGED <<lk, wire, ciphertext, plaintext>>
    /\ UNCHANGED <<EntryVars, ValidatorVars>>

\* The Lock a holder has.
held(who) == IF who = "lk" THEN lk ELSE lkd

\* The encrypt and decrypt calls explored: by the maker of the lock until it
\* is serialized, and by the reader of the unaltered serialized lock.
Holding(who) ==
    /\ held(who) # NoLock
    /\ IF who = "lk" THEN wire = <<>> ELSE wire = Lock_write(lk, <<>>)

\* The units decrypt appends for a ciphertext of n units.
decrypted_len(n) == IF n < TagLen THEN 0 ELSE n - TagLen

Encrypt(who, message, ad) ==
    /\ Holding(who)
    /\ Len(ciphertext) + encrypt_len(Len(message)) <= MaxCipher
    /\ LET r == Lock_encrypt(held(who), message, ad, ciphertext) IN
       /\ ciphertext' = r.out
       /\ lres' = [op |-> "encrypt", ok |-> r.ok, err |-> r.err, on |-> who,
                   m |-> message, ad |-> ad]
    /\ UNCHANGED <<lk, wire, lkd, plaintext>>
    /\ UNCHANGED <<EntryVars, ValidatorVars>>

\* decrypt is handed any slice of the ciphertext vector, until it fails.
Decrypt(who, from, to, ad, build) ==
    /\ Holding(who)
    /\ IF lres.op = "decrypt" THEN lres.ok ELSE TRUE
    /\ from \in 1..(Len(ciphertext) + 1) /\ to \in (from - 1)..Len(ciphertext)
    /\ Len(plaintext) + decrypted_len(to - from + 1) <= MaxPlain
    /\ LET r == Lock_decrypt(held(who), SubSeq(ciphertext, from, to), ad, plaintext, build) IN
       /\ plaintext' = r.out
       /\ lres' = [op |-> "decrypt", ok |-> r.ok, err |-> r.err, on |-> who,
                   crypt |-> SubSeq(ciphertext, from, to), ad |-> ad, panic |-> r.panic]
    /\ UNCHANGED <<lk, wire, lkd, ciphertext>>
    /\ UNCHANGED <<EntryVars, ValidatorVars>>

LockNext ==
    \/ \E k \in StreamKeys, nonce \in Nonces : FromStream(k, nonce)
    \/ \E id \in Identities, nonce \in Nonces, esk \in EphemeralSecrets :
          FromIdentity(id, nonce, esk)
    \/ WriteLock
    \/ \E i \in 1..Len(wire), u \in WireUnits : AlterWire(i, u)
    \/ TruncateWire
    \/ ReadLock
    \/ \E k \in StreamKeys : DecodeStream(k)
    \/ \E k \in FullKeys : DecodeIdentity(k)
    \/ \E who \in Holders, message \in Messages, ad \in AssocData : Encrypt(who, message, ad)
    \/ \E who \in Holders, from \in 1..(MaxCipher + 1), to \in 0..MaxCipher,
          ad \in AssocData, build \in Builds : Decrypt(who, from, to, ad, build)

SpecLock == LockInit /\ [][LockNext]_vars

\* ------------------------------------------- state machine of a query check

Flags == [query : BOOLEAN, ord : BOOLEAN]

\* Schema validators for a timestamp: every setting of the gates.
SchemaTimes ==
    {[TimeValidator_default EXCEPT !.query = g.query, !.ord = g.ord, !.min = m] :
        g \in Flags, m \in {MIN_TIME, AFTER_MIN}}

\* Query validators for a timestamp: every set of fields off their defaults.
QueryTimes ==
    {[TimeValidator_default EXCEPT !.in_list = i, !.nin_list = n, !.min = lo, !.max = hi,
                                   !.ex_min = xl, !.ex_max = xh] :
        i \in {<<>>, <<ZERO_TIME>>}, n \in {<<>>, <<BEFORE_MAX>>},
        lo \in {MIN_TIME, AFTER_MIN}, hi \in {MAX_TIME, BEFORE_MAX},
        xl \in BOOLEAN, xh \in BOOLEAN}

ArrayFlags ==
    [query : BOOLEAN, array : BOOLEAN, contains_ok : BOOLEAN, unique_ok : BOOLEAN,
     size : BOOLEAN, same_len_ok : BOOLEAN]

\* A timestamp validator a schema has for the items of an array, and one a
\* query brings that narrows the range.
ItemTime == [TimeValidator_default EXCEPT !.query = TRUE]
NarrowTime == [TimeValidator_default EXCEPT !.ex_min = TRUE]
ListedTime == [TimeValidator_default EXCEPT !.in_list = <<ZERO_TIME>>]

SchemaArrays ==
    {[ArrayValidator_default EXCEPT !.query = g.query, !.array = g.array,
                                    !.contains_ok = g.contains_ok, !.unique_ok = g.unique_ok,
                                    !.size = g.size, !.same_len_ok = g.same_len_ok,
                                    !.items = sub[1], !.prefix = sub[2]] :
        g \in ArrayFlags,
        sub \in {<<Validator_Any, <<>>>>, <<ItemTime, <<TimeValidator_default>>>>}}

QueryArrays ==
    {[ArrayValidator_default EXCEPT !.in_list = i, !.nin_list = n, !.prefix = p, !.items = it,
                                    !.contains = c, !.unique = u, !.same_len = sl,
                                    !.min_len = lo, !.max_len = hi] :
        i \in {<<>>, << <<B(1)>> >>}, n \in {<<>>, << <<>> >>},
        p \in {<<>>, <<ListedTime>>}, it \in {Validator_Any, TimeValidator_default},
        c \in {<<>>, <<NarrowTime>>}, u \in BOOLEAN, sl \in {{}, {0}},
        lo \in {0, 1}, hi \in {U32_MAX, U32_MAX - 1}}

\* The variants of an enum: a unit variant and a data-carrying one.
Variants == {"Empty", "Stamp"}

\* The maps from some of the variants to one of vals.
Vars(vals) == UNION {[names -> vals] : names \in SUBSET Variants}

Enum(var) == [EnumValidator_default EXCEPT !.var = var]

SchemaEnums == {Enum(var) : var \in Vars({None, Some(ItemTime), Some(TimeValidator_default)})}
QueryEnums ==
    {Enum(var) : var \in Vars({None, Some(TimeValidator_default), Some(ListedTime),
                               Some(Validator_Any)})}

\* Queries of several branches: of one variant, mixed, with Any, nested, empty.
QueryMultis ==
    {Validator_Multi(<<TimeValidator_default, ListedTime>>),
     Validator_Multi(<<ArrayValidator_default, TimeValidator_default>>),
     Validator_Multi(<<ArrayValidator_default, ArrayValidator_default>>),
     Validator_Multi(<<EnumValidator_default>>),
     Validator_Multi(<<TimeValidator_default, Validator_Any>>),
     Validator_Multi(<<Validator_Any>>),
     Validator_Multi(<<Validator_Multi(<<TimeValidator_default>>)>>),
     Validator_Multi(<<Validator_Multi(<<ArrayValidator_default>>), ArrayValidator_default>>),
     Validator_Multi(<<>>)}

Schemas == SchemaTimes \cup SchemaArrays \cup SchemaEnums
Queries == QueryTimes \cup QueryArrays \cup QueryEnums \cup QueryMultis \cup {Validator_Any}

QueryInit ==
    /\ EntryIdle /\ LockIdle
    /\ schema \in Schemas /\ query \in Queries
    /\ allowed = None
    /\ input = <<>> /\ outcome = None

\* The schema's validator is asked whether the query is permitted.
QueryCheck ==
    /\ allowed = None
    /\ allowed' = Some(Validator_query_check(schema, query))
    /\ UNCHANGED <<schema, query, input, outcome>>
    /\ UNCHANGED <<EntryVars, LockVars>>

QueryNext == QueryCheck

SpecQuery == QueryInit /\ [][QueryNext]_vars

\* ------------------------------------------- state machine of a validation

\* What may follow the value in the parser.
Trailing == {<<>>, <<Element_Null>>}

\* Values that are no timestamp, and parsers that end before a value does.
Untimed ==
    {<<Element_Null>>, <<Element_Int(0)>>, <<Element_Str("Stamp")>>, <<Element_Array(0)>>,
     <<Element_Array(1), Element_Timestamp(ZERO_TIME)>>}

TimeValidators ==
    {[TimeValidator_default EXCEPT !.max = hi, !.min = lo, !.ex_max = xh, !.ex_min = xl,
                                   !.in_list = i, !.nin_list = n] :
        hi \in {MAX_TIME, BEFORE_MAX, ZERO_TIME}, lo \in {MIN_TIME, AFTER_MIN, ZERO_TIME},
        xh \in BOOLEAN, xl \in BOOLEAN,
        i \in {<<>>, <<ZERO_TIME>>, <<AFTER_MIN, BEFORE_MAX>>}, n \in {<<>>, <<ZERO_TIME>>}}

TimeCases ==
    {<<validator, value \o after>> :
        validator \in TimeValidators,
        value \in {<<Element_Timestamp(t)>> : t \in Timestamps} \cup Untimed \cup {<<>>},
        after \in Trailing}

\* A timestamp validator that turns some timestamps down.
LateTime == [TimeValidator_default EXCEPT !.min = ZERO_TIME]

EnumValidators == {Enum(var) : var \in Vars({None, Some(LateTime), Some(Validator_Any)})}

\* What a variant may carry in a value.
Carried ==
    {<<Element_Timestamp(ZERO_TIME)>>, <<Element_Timestamp(MIN_TIME)>>, <<Element_Null>>,
     <<Element_Array(1), Element_Null>>}

\* Serialized enums, values that are none, and parsers that end early.
EnumValues ==
    {<<Element_Str(k)>> : k \in Variants \cup {"Other"}}
    \cup {<<Element_Map(1), Element_Str(k)>> \o v : k \in Variants \cup {"Other"}, v \in Carried}
    \cup {<<Element_Map(0)>>,
          <<Element_Map(2), Element_Str("Empty"), Element_Null, Element_Str("Stamp"),
            Element_Timestamp(ZERO_TIME)>>,
          <<Element_Map(1), Element_Int(0), Element_Timestamp(ZERO_TIME)>>,
          <<Element_Null>>, <<Element_Int(0)>>, <<Element_Timestamp(ZERO_TIME)>>,
          <<Element_Array(1), Element_Str("Empty")>>,
          <<Element_Map(1)>>, <<Element_Map(1), Element_Str("Stamp")>>, <<>>}

EnumCases ==
    {<<validator, value \o after>> :
        validator \in EnumValidators, value \in EnumValues,
        after \in Trailing \cup {<<Element_Str("Empty")>>}}

\* The longest array validated.
MaxItems == 3

\* The items of the arrays validated.
Items ==
    {<<Element_Null>>, <<Element_Hash(1)>>, <<Element_Hash(2)>>,
     <<Element_Array(0)>>, <<Element_Array(1), Element_Hash(1)>>,
     <<Element_Array(2), Element_Hash(2), Element_Null>>}

RECURSIVE Flatten(_)
Flatten(items) == IF items = <<>> THEN <<>> ELSE Head(items) \o Flatten(Tail(items))

\* The array of the given items, as the parser yields it.
ArrayOf(items) == <<Element_Array(Len(items))>> \o Flatten(items)

Arrays == {ArrayOf(items) : items \in UNION {[1..n -> Items] : n \in 0..MaxItems}}

\* A validator for arrays of hashes.
HashArray == [ArrayValidator_default EXCEPT !.items = Validator_Hash]

ArrayValidators ==
    {ArrayValidator_default, [ArrayValidator_default EXCEPT !.unique = TRUE]}
    \cup {[ArrayValidator_default EXCEPT !.same_len = sl] : sl \in SUBSET (0..(MaxItems - 1)) \ {{}}}
    \cup {[ArrayValidator_default EXCEPT !.contains = c, !.items = it, !.prefix = p] :
            c \in {<<Validator_Hash>>, <<Validator_Null, Validator_Hash>>,
                   <<Validator_Hash, Validator_Hash>>, <<HashArray>>,
                   <<HashArray, Validator_Hash>>},
            it \in {Validator_Any, Validator_Hash},
            p \in {<<>>, <<Validator_Null>>}}

ArrayCases ==
    {<<validator, value \o after>> :
        validator \in ArrayValidators,
        value \in Arrays \cup {<<Element_Null>>, <<Element_Array(2), Element_Null>>},
        after \in Trailing}

ValidateInit ==
    /\ EntryIdle /\ LockIdle
    /\ query = NoValidator /\ allowed = None
    /\ outcome = None
    /\ \E pair \in TimeCases \cup EnumCases \cup ArrayCases :
          schema = pair[1] /\ input = pair[2]

\* The schema's validator validates the value the parser stands at, with an
\* empty checklist.
Validate ==
    /\ schema # NoValidator /\ outcome = None
    /\ outcome' = Some(Validator_validate(schema, input, <<>>))
    /\ UNCHANGED <<schema, query, allowed, input>>
    /\ UNCHANGED <<EntryVars, LockVars>>

ValidateNext == Validate

SpecValidate == ValidateInit /\ [][ValidateNext]_vars

\* ------------------------------------------------------------ properties

\* The objects of the state that are entries.
Entries == {o \in {x, y} : o.kind = "entry"}

\* The object a sign call was made on, before (Signee) and after (Signee').
Signee == IF last'.on = "x" THEN x ELSE y
SigneeAfter == IF last'.on = "x" THEN x' ELSE y'

\* The body of an entry and the signatures after it.
body(e) == Upto(e.entry, e.entry_len)
tail(e) == From(e.entry, e.entry_len + 1)

\* C1: the raw bytes of an entry never exceed MAX_ENTRY_SIZE, whatever sign
\* calls (successful or failed) were made on it.
C1_EntrySizeInvariant == \A e \in Entries : Entry_len(e) <= MAX_ENTRY_SIZE

\* C2: NoSchema::encode_entry never fails: its size assertion holds for
\* every entry it is given.
C2_EncodeEntryNeverFails == last.op = "encode_entry" => last.ok

\* C3: a successful Entry::sign leaves doc, field, entry_len and the body as
\* they are, leaves entry_hash as it is (and sets it to the hash of doc,
\* field and body when it was not computed yet), appends exactly one
\* signature of the signer over entry_hash after the raw bytes, appends the
\* signer to signed_by even when it is there already, and sets hash to the
\* previous hash state (rebuilt from the raw bytes when there was none)
\* extended with exactly the appended bytes.
C3_SignMonotone ==
    [][(last'.op = "Entry::sign" /\ last'.ok) =>
        LET e == Signee
            f == SigneeAfter
            appended == From(f.entry, Len(e.entry) + 1)
            prev_state == IF is_some(e.hash_state) THEN unwrap(e.hash_state)
                          ELSE update(entry_body_state(e.doc, e.field, body(e)), tail(e))
        IN  /\ f.doc = e.doc /\ f.field = e.field /\ f.entry_len = e.entry_len
            /\ body(f) = body(e)
            /\ is_some(e.entry_hash) => f.entry_hash = e.entry_hash
            /\ f.entry_hash = Some(get_hash(entry_body_state(e.doc, e.field, body(e))))
            /\ Upto(f.entry, Len(e.entry)) = e.entry
            /\ appended = Signature_encode([signed_by |-> Identity(last'.key),
                                            over |-> unwrap(f.entry_hash)])
            /\ f.signed_by = Append(e.signed_by, Identity(last'.key))
            /\ f.hash = get_hash(update(prev_state, appended))
            /\ f.hash_state = Some(update(prev_state, appended))
            /\ f.hash # e.hash
      ]_vars

\* An entry was signed twice by the same key, both times successfully.
C3_Witness ==
    /\ last.op = "Entry::sign" /\ last.ok /\ last.on = "x"
    /\ Len(x.signed_by) = 2 /\ x.signed_by[1] = x.signed_by[2]
    /\ Len(x.entry) = x.entry_len + 2 * SigLen

\* C4: Entry::new fails exactly when the encoded value is longer than
\* MAX_ENTRY_SIZE and then makes no entry (so no hash); Entry::sign with a
\* key of the vault fails exactly when the raw bytes with the new signature
\* would be longer than MAX_ENTRY_SIZE, and the hash is then not the hash of
\* the oversized raw bytes.
C4_SizeEnforcement ==
    [][/\ last'.op = "Entry::new" =>
            /\ last'.ok <=> last'.len <= MAX_ENTRY_SIZE
            /\ ~last'.ok => x' = NoObj
            /\ last'.ok => x'.entry_len = last'.len /\ x'.hash # EmptyHash
       /\ (last'.op = "Entry::sign" /\ last'.key \in ValidKeys) =>
            /\ last'.ok <=> Len(Signee.entry) + SigLen <= MAX_ENTRY_SIZE
            /\ ~last'.ok =>
                 /\ Len(SigneeAfter.entry) > MAX_ENTRY_SIZE
                 /\ SigneeAfter.hash #
                        get_hash(update(entry_body_state(SigneeAfter.doc, SigneeAfter.field,
                                                         body(SigneeAfter)),
                                        tail(SigneeAfter)))
      ]_vars

\* An entry whose value encodes to exactly MAX_ENTRY_SIZE was made, and a
\* sign call with a key of the vault failed on it.
C4_Witness ==
    /\ x.kind = "entry" /\ x.entry_len = MAX_ENTRY_SIZE
    /\ last.op = "Entry::sign" /\ ~last.ok /\ last.key \in ValidKeys

\* The key of an identity.
key_of(id) == id - 10

\* The entry after sign calls with the keys of ids, in order.
RECURSIVE sign_all(_, _)
sign_all(e, ids) ==
    IF ids = <<>> THEN e ELSE sign_all(Entry_sign(e, key_of(ids[1])).entry, Tail(ids))

\* The last step made or signed the entry x (no other step changes x).
EntryTouched == last.op = "Entry::new" \/ (last.op = "Entry::sign" /\ last.on = "x")

\* C5: an entry built by Entry::new and signed compares equal to another one
\* built by Entry::new and signed by the same keys exactly when doc hash,
\* field and value are the same; entry_hash is the hash of encode(doc hash),
\* encode(field) and the body in that order, and an unsigned entry has
\* hash = entry_hash.
C5_HashCommits ==
    (x.kind = "entry" /\ EntryTouched) =>
        /\ \A doc \in DocHashes, field \in Fields, v \in EntryValues :
              Entry_new(doc, field, v).ok =>
                 (Entry_eq(x, sign_all(Entry_new(doc, field, v).entry, x.signed_by))
                  <=> (doc = x.doc /\ field = x.field /\ write_value(v) = body(x)))
        /\ x.entry_hash = Some(get_hash((write_value(VHash(x.doc))
                                         \o write_value(VStr(x.field))) \o body(x)))
        /\ x.signed_by = <<>> => x.hash = unwrap(x.entry_hash)

\* A signed entry under the field "a" of the parent FakeHash.
C5_Witness ==
    /\ x.kind = "entry" /\ x.doc = FakeHash /\ x.field = <<97>>
    /\ Len(x.signed_by) = 2 /\ last.op = "Entry::sign" /\ last.ok

\* The raw bytes of an object, the length of its body, its pre-signature
\* hash, its maximum size, and what its kind's encoder writes for it.
raw(o) == IF o.kind = "entry" THEN o.entry ELSE o.doc
blen(o) == IF o.kind = "entry" THEN o.entry_len ELSE o.doc_len
pre_hash(o) == IF o.kind = "entry" THEN o.entry_hash ELSE o.doc_hash
MaxSize(o) == IF o.kind = "entry" THEN MAX_ENTRY_SIZE ELSE MAX_DOC_SIZE
encoded(o) == IF o.kind = "entry" THEN encode_entry(o, <<>>).buf ELSE encode_doc(o, <<>>).buf
SchemaLess(o) == IF o.kind = "entry" THEN TRUE ELSE is_none(schema_hash(o))

\* The trusted decoder of the kind of o, given the context of o and no hash,
\* and the object a decoder or a sign call of that kind returns in r.
trusted(o, s) ==
    IF o.kind = "entry" THEN trusted_decode_entry(s, o.doc, o.field, None)
    ELSE trusted_decode_doc(s, None)
got(r, o) == IF o.kind = "entry" THEN r.entry ELSE r.doc
signed(o, k) == IF o.kind = "entry" THEN Entry_sign(o, k) ELSE Document_sign(o, k)

\* y was decoded and not signed since.
Fresh == y # NoObj /\ Len(y.signed_by) = prov.nsig

\* C6: the unaltered blob that encode or compress wrote for a schema-less
\* document or entry within its maximum size decodes with the trusted
\* decoder given no hash (and the same doc and field), and the decoded
\* object has the same hash, pre-signature hash and signed_by, and encodes to
\* the same bytes.
C6_HashStable ==
    /\ (sent # NoSent /\ ~sent.tampered /\ SchemaLess(sent.obj)
        /\ Len(raw(sent.obj)) <= MaxSize(sent.obj))
       => LET r == trusted(sent.obj, buf) IN
          /\ r.ok
          /\ got(r, sent.obj).hash = sent.obj.hash
          /\ encoded(got(r, sent.obj)) = encoded(sent.obj)
    /\ (Faithful /\ Fresh /\ prov.arg.hash = "none")
       => /\ y.hash = sent.obj.hash
          /\ pre_hash(y) = pre_hash(sent.obj)
          /\ y.signed_by = sent.obj.signed_by
          /\ raw(y) = raw(sent.obj)
          /\ encoded(y) = encoded(sent.obj)
          /\ sent.how = "encode" => encoded(y) = buf

\* A signed entry was compressed and decoded by trusted_decode_entry, given
\* its doc and field and no hash.
C6_Witness ==
    /\ Faithful /\ Fresh /\ prov.arg.hash = "none"
    /\ y.kind = "entry" /\ sent.how = "compress"
    /\ Len(y.signed_by) = 1 /\ last.op = "trusted_decode_entry" /\ last.ok

\* The same sign calls with keys of the vault were made on x since its blob
\* was written and on y since it was decoded.
SameSigns ==
    From(x.signed_by, Len(sent.obj.signed_by) + 1) = From(y.signed_by, prov.nsig + 1)

\* y was made of the compressed blob of x by a trusted decoder, given no
\* hash or the hash of x.
Commuting == Faithful /\ sent.how = "compress"

\* C7 as stated: after compress and trusted decoding with no hash or the
\* hash of x, a sign call with a key of the vault on x or on y succeeds, and
\* the same sign calls leave x and y equal.
C7_SignBothSucceed ==
    (Commuting /\ last.op \in {"Entry::sign", "Document::sign"} /\ last.key \in ValidKeys)
    => /\ last.ok
       /\ SameSigns => x.hash = y.hash

\* C7: after compress and trusted decoding with no hash or the hash of x,
\* signing x and signing y with the same key have the same outcome (both
\* succeed when the key is in the vault and the signature fits the maximum
\* size, both fail otherwise) and leave x and y equal; a sign call on an
\* object without hash state rebuilds it from the body and all signatures.
C7_SignCommutes ==
    (Commuting /\ SameSigns) =>
       /\ x.hash = y.hash
       /\ raw(x) = raw(y)
       /\ \A k \in Keys :
             LET rx == signed(x, k)
                 ry == signed(y, k)
             IN  /\ rx.ok = ry.ok /\ rx.err = ry.err
                 /\ rx.ok <=> (k \in ValidKeys /\ Len(raw(x)) + SigLen <= MaxSize(x))
                 /\ got(rx, x).hash = got(ry, y).hash
                 /\ got(rx, x).signed_by = got(ry, y).signed_by
                 /\ is_some(got(ry, y).hash_state)
                 /\ got(ry, y).hash_state = got(rx, x).hash_state

\* A signed entry was compressed and decoded by trusted_decode_entry given
\* its hash; then x and the decoded y were signed with the same key.
C7_Witness ==
    /\ Commuting /\ SameSigns /\ prov.arg.hash = "own"
    /\ y.kind = "entry" /\ prov.nsig = 1 /\ Len(y.signed_by) = 2
    /\ last.op = "Entry::sign" /\ last.on = "y" /\ last.ok

\* The signatures after the body of o all decode, verify against the hash
\* of (context and) body, and are those of signed_by.
AllVerify(o, h) ==
    /\ Len(raw(o)) = blen(o) + SigLen * Len(o.signed_by)
    /\ \A i \in 1..Len(o.signed_by) :
          LET sig == Signature_decode(From(raw(o), blen(o) + SigLen * (i - 1) + 1))
          IN  sig.ok /\ Signature_verify(sig, h) /\ sig.signed_by = o.signed_by[i]

\* The hash of the body of o, with its doc and field first when o is an entry.
body_hash(o) ==
    IF o.kind = "entry" THEN get_hash(entry_body_state(o.doc, o.field, Upto(raw(o), blen(o))))
    ELSE get_hash(update(HashState_new, Upto(raw(o), blen(o))))

StrictOps == {"decode_doc", "decode_entry"}

\* C8: decode_doc and decode_entry return an object only when every
\* signature after the body decodes and verifies against the pre-signature
\* hash computed from the received bytes; once a unit of the signatures of
\* an encoded blob is altered or cut off, they return an error and no object.
C8_StrictVerifies ==
    last.op \in StrictOps =>
       /\ last.ok => /\ y # NoObj /\ AllVerify(y, body_hash(y))
                     /\ pre_hash(y) = Some(body_hash(y))
       /\ ~last.ok => y = NoObj
       /\ (sent.how = "encode" /\ sent.at > 1 + blen(sent.obj)) => ~last.ok

\* decode_doc refused a signed document because a unit of its signature was
\* altered.
C8_Witness ==
    /\ last.op = "decode_doc" /\ ~last.ok /\ last.err = "VerifyFailed"
    /\ sent.how = "encode" /\ sent.at > 1 + blen(sent.obj)
    /\ SchemaLess(sent.obj)

\* C9: decode_doc refuses the unaltered blob of every document whose body
\* holds a schema hash, written by encode_doc or by compress_doc, and
\* accepts the one of every document that holds none, signed or not.
C9_DecodeDocSchema ==
    (last.op = "decode_doc" /\ ~sent.tampered) =>
       /\ last.ok <=> is_none(schema_hash(sent.obj))
       /\ ~last.ok => /\ y = NoObj
                      /\ last.err = IF sent.how = "encode" THEN "HasSchema" ELSE "UsesSchema"
       /\ last.ok => y.signed_by = sent.obj.signed_by /\ y.hash = sent.obj.hash

\* decode_doc refused the encoded blob of a document with a schema hash.
C9_Witness ==
    /\ last.op = "decode_doc" /\ ~last.ok /\ last.err = "HasSchema"
    /\ ~sent.tampered /\ sent.how = "encode" /\ is_some(schema_hash(sent.obj))

DecoderOps == {"trusted_decode_doc", "decode_doc", "trusted_decode_entry", "decode_entry"}

\* C10: compress_doc writes the tag Compressed exactly when the document has
\* a schema hash and CompressedNoSchema otherwise; compress_entry always
\* writes CompressedNoSchema; the four decoders of NoSchema return an error
\* for every blob whose tag is Compressed or DictCompressed.
C10_CompressionTags ==
    /\ (sent # NoSent /\ sent.how = "compress" /\ ~sent.tampered) =>
          buf[1] = B(IF SchemaLess(sent.obj) THEN CompressedNoSchema ELSE Compressed)
    /\ (last.op \in DecoderOps /\ buf[1] \in {B(Compressed), B(DictCompressed)}) =>
          ~last.ok /\ y = NoObj /\ last.err = "UsesSchema"

\* trusted_decode_doc refused what compress_doc wrote for a document with a
\* schema hash.
C10_Witness ==
    /\ last.op = "trusted_decode_doc" /\ ~last.ok /\ last.err = "UsesSchema"
    /\ ~sent.tampered /\ sent.how = "compress" /\ buf[1] = B(Compressed)

\* The blob in buf is the unaltered one of an entry within MAX_ENTRY_SIZE.
EntryBlob ==
    /\ sent # NoSent /\ ~sent.tampered /\ sent.obj.kind = "entry"
    /\ Len(raw(sent.obj)) <= MAX_ENTRY_SIZE

\* C11: decode_entry computes entry_hash from the doc and field it is given
\* and the body: the blob of an entry with at least one signature decodes
\* under its own (doc, field) and fails under every other one, and the blob
\* of an unsigned entry decoded under another (doc, field) gives an entry
\* whose hash is not the original's.
C11_ContextBound ==
    /\ EntryBlob =>
          \A doc \in DocHashes, field \in Fields :
             LET r == decode_entry(buf, doc, field)
                 same == doc = sent.obj.doc /\ field = sent.obj.field
             IN  /\ same => r.ok /\ r.entry.hash = sent.obj.hash
                 /\ (~same /\ sent.obj.signed_by # <<>>) =>
                       ~r.ok /\ r.err = "VerifyFailed"
                 /\ (~same /\ sent.obj.signed_by = <<>>) =>
                       r.ok /\ r.entry.hash # sent.obj.hash
    /\ (EntryBlob /\ last.op = "decode_entry") =>
          /\ ~last.ok => last.err = "VerifyFailed" /\ sent.obj.signed_by # <<>> /\ y = NoObj
          /\ (last.ok /\ Fresh) =>
                /\ y.entry_hash =
                      Some(get_hash(entry_body_state(prov.arg.doc, prov.arg.field, body(y))))
                /\ y.hash = sent.obj.hash
                      <=> (prov.arg.doc = sent.obj.doc /\ prov.arg.field = sent.obj.field)

\* decode_entry refused the unaltered blob of a signed entry: it was given
\* another doc or field than the signature was made for.
C11_Witness ==
    /\ EntryBlob /\ last.op = "decode_entry" /\ ~last.ok /\ last.err = "VerifyFailed"
    /\ Len(sent.obj.signed_by) = 2

\* C12 as stated: a decoder that refuses a blob for its size has allocated
\* no buffer for it, neither for the decompressed data nor for a copy of the
\* compressed input.
C12_NoAllocationBeforeBound ==
    (last.op \in DecoderOps /\ ~last.ok /\ last.err = "TooLarge") => last.alloc = <<>>

TrustedOps == {"trusted_decode_doc", "trusted_decode_entry"}

\* The blob in buf was written by encode_doc or encode_entry and then ...
\* ... one unit of signature bytes in it was replaced by a plain byte,
SigBytesAltered ==
    /\ sent # NoSent /\ sent.how = "encode" /\ sent.tampered
    /\ Len(buf) = 1 + Len(raw(sent.obj))
    /\ sent.at > 1 /\ DOMAIN raw(sent.obj)[sent.at - 1] = {"sg"}
\* ... its last unit was cut off, which was the last one of the body,
BodyCut ==
    /\ sent # NoSent /\ sent.how = "encode" /\ sent.tampered
    /\ Len(buf) = Len(raw(sent.obj)) /\ Len(raw(sent.obj)) = blen(sent.obj)
\* ... its last unit was cut off, which was the last one of a signature.
TailCut ==
    /\ sent # NoSent /\ sent.how = "encode" /\ sent.tampered
    /\ Len(buf) = Len(raw(sent.obj)) /\ Len(raw(sent.obj)) > blen(sent.obj)

\* C13: trusted_decode_doc and trusted_decode_entry accept signatures that
\* are well-formed but do not verify and a document with a schema hash; they
\* return an error for an unknown compression tag, a payload over the
\* maximum size, a body that is cut short and a signature tail that is no
\* whole number of signatures; given a hash, the object returned has it.
C13_TrustedDecode ==
    last.op \in TrustedOps =>
       /\ SigBytesAltered => last.ok /\ y.signed_by = sent.obj.signed_by
       /\ (~sent.tampered /\ sent.how = "encode") => last.ok
       /\ (IsB(buf[1]) /\ buf[1].b \notin {Uncompressed, CompressedNoSchema,
                                           Compressed, DictCompressed}) =>
             ~last.ok /\ last.err = "CompressType"
       /\ (buf[1] = B(Uncompressed) /\ Len(buf) - 1 > MaxSize(sent.obj)) =>
             ~last.ok /\ last.err = "TooLarge"
       /\ BodyCut => ~last.ok /\ last.err = "Value"
       /\ TailCut => ~last.ok /\ last.err = "InvalidSignature"
       /\ ~last.ok => y = NoObj
       /\ last.ok => verify_value(raw(y)) = blen(y)
       /\ (last.ok /\ prov.arg.hash # "none") =>
             y.hash = unwrap(hash_arg(prov.arg.hash, sent.obj))

\* trusted_decode_doc accepted a signed document of which the signature
\* bytes were altered, and gave it the hash it was handed.
C13_Witness ==
    /\ last.op = "trusted_decode_doc" /\ last.ok /\ SigBytesAltered
    /\ prov.arg.hash = "other" /\ y.hash = EmptyHash


\* A Lock that needs a key, and a Lock that has its key.
SEALED(l) == needs(l) = Some(l.type_id) /\ get_stream(l) = None
KEYED(l) == needs(l) = None /\ is_some(get_stream(l))

\* The key k of the last decode_* call fits the lock l: the kind of the lock,
\* its stream id or public key, and its version.
Matching(l, op, k) ==
    IF op = "decode_stream"
    THEN l.type_id.t = "Stream" /\ l.type_id.id = StreamKey_get_id(k)
         /\ l.version = StreamKey_get_version(k)
    ELSE l.type_id.t = "Identity" /\ l.type_id.pk = FullKey_get_id(k)
         /\ l.version = FullKey_get_version(k)

DecodeOps == {"decode_stream", "decode_identity"}

\* C14: a Lock that Lock::read returns is SEALED (needs() is its LockType and
\* get_stream() is None); a SEALED Lock becomes KEYED only by a successful
\* decode_stream on a Stream lock or decode_identity on an Identity lock, the
\* key matching its id and version; a KEYED Lock stays KEYED; from_stream and
\* from_identity return KEYED Locks; and a keyed Lock written, read back and
\* decoded with the matching key equals the original.
C14_LockStateMachine ==
    [][ /\ (lres'.op = "read" /\ lres'.ok) => SEALED(lkd')
        /\ (lres'.op \in {"from_stream", "from_identity"} /\ lres'.ok) => KEYED(lk')
        /\ (lk # NoLock) => (lk' = lk /\ KEYED(lk'))
        /\ (lkd # NoLock /\ lkd' # lkd) =>
              /\ SEALED(lkd) /\ KEYED(lkd')
              /\ lres'.op \in DecodeOps /\ lres'.ok
              /\ Matching(lkd, lres'.op, lres'.k)
        /\ (lkd # NoLock /\ KEYED(lkd)) => KEYED(lkd')
        /\ (lres'.op \in DecodeOps /\ lres'.ok) =>
              /\ Matching(lkd, lres'.op, lres'.k) /\ KEYED(lkd')
              /\ (wire = Lock_write(lk, <<>>)) => lkd' = lk
      ]_vars

C14_Witness ==
    /\ lres.op = "decode_identity" /\ lres.ok
    /\ wire = Lock_write(lk, <<>>) /\ lkd = lk /\ KEYED(lkd)


\* The Lock the last encrypt or decrypt call was made on.
Used == held(lres.on)
UsedAfter == IF lres'.on = "lk" THEN lk ELSE lkd

\* C15: decode_stream returns BadKey on an Identity lock, on another stream
\* id and on another version; decode_identity returns BadKey on a Stream
\* lock, on another signer public key and on another version; encrypt and
\* decrypt return BadKey on a SEALED Lock and write nothing to the output;
\* and a failed decode_* call leaves the Lock as it was.
C15_KeyingFailures ==
    [][ /\ (lres'.op \in DecodeOps /\ ~Matching(lkd, lres'.op, lres'.k)) =>
              (~lres'.ok /\ lres'.err = "BadKey")
        /\ (lres'.op \in DecodeOps /\ ~lres'.ok) => lkd' = lkd
        /\ (lres'.op = "encrypt" /\ SEALED(UsedAfter)) =>
              (~lres'.ok /\ lres'.err = "BadKey" /\ ciphertext' = ciphertext)
        /\ (lres'.op = "decrypt" /\ SEALED(UsedAfter)) =>
              (~lres'.ok /\ lres'.err = "BadKey" /\ plaintext' = plaintext)
      ]_vars

C15_Witness ==
    /\ lres.op = "decode_identity" /\ ~lres.ok /\ lres.err = "BadKey"
    /\ lkd.type_id.t = "Identity" /\ lkd.type_id.pk = FullKey_get_id(lres.k)
    /\ lkd.version # FullKey_get_version(lres.k) /\ SEALED(lkd)


\* The positions in out where the tag of a ciphertext starts, and the key
\* and the nonce that ciphertext was made with.
TagStarts(out) == {i \in DOMAIN out : DOMAIN out[i] = {"tag"} /\ out[i].tag.j = 1}
MadeWith(u) == <<u.tag.k, u.tag.n>>

\* C16: a Lock encrypts one message only: no two ciphertexts in the output
\* were made with the same key and the same nonce.
C16_SingleUse ==
    \A i, j \in TagStarts(ciphertext) :
        MadeWith(ciphertext[i]) = MadeWith(ciphertext[j]) => i = j


\* The messages of which crypt is the ciphertext under the Lock l and ad.
Sealing(l, crypt, ad) ==
    {m \in Messages : crypt = Lock_encrypt(l, m, ad, <<>>).out}

\* C17: on a KEYED Lock, encrypt succeeds, appends encrypt_len(len(m)) =
\* len(m) + tag length units and keeps what the output held; and decrypt of
\* the units encrypt appended, by a Lock with the same key and nonce and with
\* the same associated data, succeeds and appends exactly m.
C17_RoundTrip ==
    [][ /\ (lres'.op = "encrypt" /\ KEYED(UsedAfter)) =>
              /\ lres'.ok
              /\ Len(ciphertext') = Len(ciphertext) + encrypt_len(Len(lres'.m))
              /\ encrypt_len(Len(lres'.m)) = Len(lres'.m) + TagLen
              /\ Upto(ciphertext', Len(ciphertext)) = ciphertext
              /\ lres'.m \in Sealing(UsedAfter, From(ciphertext', Len(ciphertext) + 1), lres'.ad)
        /\ (lres'.op = "decrypt" /\ KEYED(UsedAfter)) =>
              \A m \in Sealing(UsedAfter, lres'.crypt, lres'.ad) :
                  lres'.ok /\ plaintext' = plaintext \o m
      ]_vars

C17_Witness ==
    /\ lres.op = "decrypt" /\ lres.ok /\ lres.on = "lkd"
    /\ lres.ad = <<B(0)>> /\ plaintext = <<B(0), B(1)>>
    /\ <<B(0), B(1)>> \in Sealing(lk, lres.crypt, lres.ad)


\* C18: decrypt returns a Result for a ciphertext of any length: it never
\* panics, whatever the build.
C18_DecryptNeverPanics ==
    lres.op = "decrypt" => ~lres.panic

\* C19: from_stream, from_identity and Lock::read fail with
\* UnsupportedVersion on a version other than 1, so every Lock returned has
\* version 1.
C19_VersionChecked ==
    /\ (lres.op \in {"from_stream", "from_identity"} /\ lres.version # 1) =>
          (~lres.ok /\ lres.err = "UnsupportedVersion")
    /\ (lres.op = "read" /\ wire[1] # B(1)) =>
          (~lres.ok /\ lres.err = "UnsupportedVersion")
    /\ (lk # NoLock) => Lock_get_version(lk) = 1
    /\ (lkd # NoLock) => Lock_get_version(lkd) = 1


\* The gate of each field of a query, for a timestamp and for an array.
TimeGate ==
    [in_list |-> "query", nin_list |-> "query",
     min |-> "ord", max |-> "ord", ex_min |-> "ord", ex_max |-> "ord"]
ArrayGate ==
    [in_list |-> "query", nin_list |-> "query", prefix |-> "array", items |-> "array",
     contains |-> "contains_ok", unique |-> "unique_ok", same_len |-> "same_len_ok",
     min_len |-> "size", max_len |-> "size"]

\* The gated fields in which the query q is off the default d.
Deviating(q, gate, d) == {f \in DOMAIN gate : q[f] # d[f]}
\* The query q is off its default in a field whose gate the schema s has shut.
Denied(s, q, gate, d) == \E f \in Deviating(q, gate, d) : ~s[gate[f]]

\* C20: for a schema and a query of the same variant, query_check is false
\* when the query is off its default in a field whose gate is false in the
\* schema; for Time it is true exactly when no such field is; and the query
\* with every field at its default is accepted.
C20_QueryGates ==
    allowed # None =>
        /\ (schema.kind = "Time" /\ query.kind = "Time") =>
              (unwrap(allowed) <=> ~Denied(schema, query, TimeGate, TimeValidator_default))
        /\ (schema.kind = "Array" /\ query.kind = "Array") =>
              (Denied(schema, query, ArrayGate, ArrayValidator_default) => ~unwrap(allowed))
        /\ (schema.kind = "Time" /\ query = TimeValidator_default) => unwrap(allowed)
        /\ (schema.kind = "Array" /\ query = ArrayValidator_default) => unwrap(allowed)

C20_Witness ==
    /\ allowed = Some(FALSE)
    /\ schema.kind = "Array" /\ query.kind = "Array"
    /\ Deviating(query, ArrayGate, ArrayValidator_default) = {"same_len"}
    /\ ~schema.same_len_ok
    /\ schema.query /\ schema.array /\ schema.contains_ok /\ schema.unique_ok /\ schema.size


\* C30: a decrypt call that returns DecryptFailed or BadKey leaves the
\* output vector as it was: same length, same contents.
C30_DecryptOutputUntouched ==
    [][ (lres'.op = "decrypt" /\ ~lres'.ok /\ lres'.err \in {"DecryptFailed", "BadKey"}) =>
            plaintext' = plaintext
      ]_vars


\* The signers of the signatures a raw tail holds, in order.
RECURSIVE tail_signers(_)
tail_signers(t) ==
    IF t = <<>> THEN <<>>
    ELSE IF ~Signature_decode(t).ok THEN <<>>
    ELSE <<Signature_decode(t).signed_by>> \o tail_signers(From(t, SigLen + 1))

\* C26: after Entry::new and any sign calls, failed ones included, the hash
\* of the entry is the hash of encode(doc hash), encode(field) and all of
\* its raw bytes, and signed_by lists the signers of the signatures in the
\* raw tail, in order.
C26_HashUpToDate ==
    x.kind = "entry" =>
        /\ x.hash = get_hash(update(entry_body_state(x.doc, x.field, body(x)), tail(x)))
        /\ x.signed_by = tail_signers(tail(x))


\* C21: a query of several branches is accepted by a Time, Array or Enum
\* schema validator exactly when that validator accepts every branch on its
\* own.
C21_MultiBranches ==
    (allowed # None /\ query.kind = "Multi") =>
        (unwrap(allowed) <=>
            \A i \in DOMAIN query.list : Validator_query_check(schema, query.list[i]))

\* The query gives the variant k what the schema allows for it: nothing for
\* a unit variant, a validator the schema's one accepts otherwise.
VariantAllowed(k) ==
    /\ k \in DOMAIN schema.var
    /\ IF is_none(schema.var[k]) THEN is_none(query.var[k])
       ELSE /\ is_some(query.var[k])
            /\ Validator_query_check(unwrap(schema.var[k]), unwrap(query.var[k]))

\* C22: an Enum schema validator accepts only an Any or an Enum query; an
\* Enum query exactly when each of its variants is one of the schema's and
\* is a unit variant on both sides or carries on both sides a validator, the
\* schema's accepting the query's.
C22_EnumQuery ==
    (allowed # None /\ schema.kind = "Enum") =>
        /\ unwrap(allowed) => query.kind \in {"Any", "Enum"}
        /\ query.kind = "Any" => unwrap(allowed)
        /\ query.kind = "Enum" =>
              (unwrap(allowed) <=> \A k \in DOMAIN query.var : VariantAllowed(k))

C22_Witness ==
    /\ allowed = Some(FALSE) /\ schema.kind = "Enum" /\ query.kind = "Enum"
    /\ DOMAIN schema.var = Variants /\ DOMAIN query.var = {"Empty"}
    /\ is_none(schema.var["Empty"]) /\ is_some(query.var["Empty"])

\* The validator of v for the position i of an array.
Position(v, i) == IF i <= Len(v.prefix) THEN v.prefix[i] ELSE v.items

\* C27: an Array schema validator with `array` set accepts an Array query
\* only if its items validator accepts the query's and, at every position
\* below the longer of the two prefixes, its validator for the position
\* accepts the query's; with `contains_ok` set, only if its items validator
\* and each of its prefix validators accept every validator of the query's
\* contains list.
C27_ArraySubValidators ==
    (allowed = Some(TRUE) /\ schema.kind = "Array" /\ query.kind = "Array") =>
        /\ schema.array =>
              /\ Validator_query_check(schema.items, query.items)
              /\ \A i \in 1..Len(schema.prefix) \cup 1..Len(query.prefix) :
                     Validator_query_check(Position(schema, i), Position(query, i))
        /\ schema.contains_ok =>
              \A c \in DOMAIN query.contains :
                  /\ Validator_query_check(schema.items, query.contains[c])
                  /\ \A p \in DOMAIN schema.prefix :
                         Validator_query_check(schema.prefix[p], query.contains[c])

C27_Witness ==
    /\ allowed = Some(TRUE) /\ schema.kind = "Array" /\ query.kind = "Array"
    /\ schema.array /\ schema.contains_ok
    /\ Len(schema.prefix) = 1 /\ query.prefix = <<>> /\ query.items # Validator_Any


\* The validation made, and what it returned.
Validated(kind) == outcome # None /\ schema.kind = kind
Returned == unwrap(outcome)

\* The parser stands at a timestamp.
AtTimestamp == input # <<>> /\ Head(input).el = "Timestamp"

\* a comes before b: on seconds first, then on nanoseconds.
Before(a, b) == a.sec < b.sec \/ (a.sec = b.sec /\ a.nano < b.nano)

\* The schema's timestamp validator has t in its range and on its lists.
Admitted(t) ==
    /\ Before(t, schema.max) \/ (t = schema.max /\ ~schema.ex_max)
    /\ Before(schema.min, t) \/ (t = schema.min /\ ~schema.ex_min)
    /\ schema.in_list # <<>> => \E i \in DOMAIN schema.in_list : schema.in_list[i] = t
    /\ \A i \in DOMAIN schema.nin_list : schema.nin_list[i] # t

\* C25: a Time validator accepts a value exactly when it is a timestamp that
\* is at most max (before max when ex_max), at least min (after min when
\* ex_min), on the in list if there is one, and not on the nin list,
\* timestamps being ordered on seconds first and nanoseconds next; the
\* default validator accepts every timestamp, and what is no timestamp is
\* rejected.
C25_TimeValidate ==
    Validated("Time") =>
        /\ Returned.ok <=> (AtTimestamp /\ Admitted(Head(input).time))
        /\ (schema = TimeValidator_default /\ AtTimestamp) => Returned.ok
        /\ ~AtTimestamp => ~Returned.ok
        /\ Returned.ok => Returned.parser = Tail(input)

\* A timestamp of fewer seconds and more nanoseconds than min is rejected.
C25_Witness ==
    /\ Validated("Time") /\ AtTimestamp /\ ~Returned.ok
    /\ schema.min = ZERO_TIME /\ ~schema.ex_min /\ schema.max = MAX_TIME
    /\ schema.in_list = <<>> /\ schema.nin_list = <<>>
    /\ Head(input).time.sec < 0 /\ Head(input).time.nano > 0


\* The parser stands at a bare string.
AtString == input # <<>> /\ Head(input).el = "Str"

\* The parser stands at a map of one entry whose key is a string.
AtEntry ==
    /\ Len(input) >= 2
    /\ Head(input) = Element_Map(1)
    /\ input[2].el = "Str"

\* The schema's enum has the variant k, without data or with.
UnitVariant(k) == k \in DOMAIN schema.var /\ schema.var[k] = None
DataVariant(k) == k \in DOMAIN schema.var /\ schema.var[k] # None

\* C24: an Enum validator accepts a bare string exactly when it names a
\* variant without a validator, and a map of one entry exactly when its key
\* names a variant with a validator and that validator accepts the value; it
\* rejects every other value; on success exactly the one value was read off
\* the parser.
C24_EnumValidate ==
    Validated("Enum") =>
        /\ AtString => (Returned.ok <=> UnitVariant(Head(input).str))
        /\ AtEntry =>
              (Returned.ok <=>
                  /\ DataVariant(input[2].str)
                  /\ Validator_validate(unwrap(schema.var[input[2].str]),
                                        SubSeq(input, 3, Len(input)), <<>>).ok)
        /\ (~AtString /\ ~AtEntry) => ~Returned.ok
        /\ Returned.ok => Some(Returned.parser) = skip_values(input, 1)

\* A map of one entry is accepted and what follows it is left in the parser.
C24_Witness ==
    /\ Validated("Enum") /\ AtEntry /\ Returned.ok
    /\ schema.var[input[2].str] = Some(LateTime)
    /\ Returned.parser = <<Element_Str("Empty")>>


\* The parser stands at an array that is whole.
AtArray ==
    /\ input # <<>> /\ Head(input).el = "Array"
    /\ skip_values(input, 1) # None

\* The items of the array the parser stands at.
ItemsAt == unwrap(deserialize_items(Tail(input), Head(input).len))

\* The validator of the schema has unique set and every other field at its
\* default.
OnlyUnique == schema = [ArrayValidator_default EXCEPT !.unique = TRUE]

\* C23: with unique set and nothing else, an Array validator accepts an
\* array exactly when no two of its items at distinct indices are equal.
C23_ArrayUnique ==
    (Validated("Array") /\ OnlyUnique /\ AtArray) =>
        (Returned.ok <=>
            \A i, j \in DOMAIN ItemsAt : i # j => ItemsAt[i] # ItemsAt[j])


\* The validator of the schema has same_len set and every other field at
\* its default.
OnlySameLen ==
    /\ schema.same_len # {}
    /\ schema = [ArrayValidator_default EXCEPT !.same_len = schema.same_len]

\* The item of index i (from 0) is missing from the array or is Null.
Vacant(i) == i >= Len(ItemsAt) \/ ItemsAt[i + 1] = <<Element_Null>>

\* The item of index i (from 0) is an array of n items.
ArrayOfLen(i, n) == i < Len(ItemsAt) /\ Head(ItemsAt[i + 1]) = Element_Array(n)

\* C29: the indices of same_len pass exactly when each of them is Null or
\* beyond the array's end, or each of them holds an array and all these
\* arrays have one length; a mixture fails in whatever order, and so does a
\* listed item that is neither Null nor an array.
C29_ArraySameLen ==
    (Validated("Array") /\ OnlySameLen /\ AtArray) =>
        (Returned.ok <=>
            \/ \A i \in schema.same_len : Vacant(i)
            \/ \E n \in 0..MaxItems : \A i \in schema.same_len : ArrayOfLen(i, n))

\* A Null at a listed index before an array at another one fails.
C29_Witness ==
    /\ Validated("Array") /\ OnlySameLen /\ AtArray /\ ~Returned.ok
    /\ schema.same_len = {0, 1}
    /\ Vacant(0) /\ ArrayOfLen(1, 1)


\* What a validator returns for an item taken alone, with an empty checklist.
Alone(validator, item) == Validator_validate(validator, item, <<>>)

\* The item of index i (from 1) is the first one the c-th contains validator
\* accepts.
FirstAccepted(c, i) ==
    /\ Alone(schema.contains[c], ItemsAt[i]).ok
    /\ \A j \in 1..(i - 1) : ~Alone(schema.contains[c], ItemsAt[j]).ok

\* What the item of index i puts on the checklist: what the contains
\* validators that it is the first to satisfy defer, in their order, then
\* what the validator of its position defers.
Deferred(i) ==
    Flatten([c \in DOMAIN schema.contains |->
                IF FirstAccepted(c, i) THEN Alone(schema.contains[c], ItemsAt[i]).checklist
                ELSE <<>>])
    \o Alone(Position(schema, i), ItemsAt[i]).checklist

\* C28: an Array validator with contains validators succeeds only if each of
\* them accepts some item, so never on an empty array; the attempts do not
\* move the parser of the items: each item is read once by the validator of
\* its position and the returned parser stands right after the last item; a
\* contains validator is not tried after an item satisfied it, and an
\* attempt that fails leaves nothing on the checklist.
C28_ArrayContains ==
    (Validated("Array") /\ schema.contains # <<>> /\ AtArray) =>
        /\ Len(ItemsAt) = 0 => ~Returned.ok
        /\ Returned.ok =>
              /\ \A c \in DOMAIN schema.contains :
                    \E i \in DOMAIN ItemsAt : Alone(schema.contains[c], ItemsAt[i]).ok
              /\ \A i \in DOMAIN ItemsAt :
                    /\ Alone(Position(schema, i), ItemsAt[i]).ok
                    /\ Alone(Position(schema, i), ItemsAt[i]).parser = <<>>
              /\ Some(Returned.parser) = skip_values(input, 1)
              /\ Returned.checklist = Flatten([i \in DOMAIN ItemsAt |-> Deferred(i)])

\* An attempt of a contains validator failed on an array after one hash of
\* it, a later item satisfied it, and elements follow the array validated.
C28_Witness ==
    /\ Validated("Array") /\ AtArray /\ Returned.ok
    /\ schema.contains = <<HashArray, Validator_Hash>> /\ schema.items = Validator_Any
    /\ Len(ItemsAt) = 3
    /\ ItemsAt[1] = <<Element_Array(2), Element_Hash(2), Element_Null>>
    /\ Returned.checklist = <<1, 1>>
    /\ Returned.parser = <<Element_Null>>

=============================================================================
